---- MODULE Spec2Model ----
(***************************************************************************)
(* Model of the query-execution core of agentic-ai-splunk:                 *)
(*   SplunkClient   (src/src/core/splunk_client.py)   - Search Executor    *)
(*   QueryProcessor (src/src/core/query_processor.py) - Query Orchestrator *)
(*   OpenAIClient   (src/src/core/openai_client.py)   - Translation Gateway*)
(* Strings are sequences of one-character strings, Python dictionaries are *)
(* records whose domain is the set of keys present.  Time is counted in    *)
(* ticks of one poll interval (time.sleep(0.5)).                            *)
(***************************************************************************)
EXTENDS Integers, Sequences, FiniteSets, TLC

(***************************************************************************)
(* Bounds of the model.                                                    *)
(***************************************************************************)
MaxRecords == 3
MaxCount == 1
MaxSleepTicks == 2
MaxJobs == 2

(***************************************************************************)
(* Program constants.                                                      *)
(***************************************************************************)
OneshotMaxResults == 100
OneshotMinTimeout == 30
DefaultTimeout == 60
TicksPerSecond == 2
ContextCacheTtl == 300

(***************************************************************************)
(* Python string primitives used by the code.                              *)
(***************************************************************************)
UpperLetters == <<"A","B","C","D","E","F","G","H","I","J","K","L","M",
                  "N","O","P","Q","R","S","T","U","V","W","X","Y","Z">>
LowerLetters == <<"a","b","c","d","e","f","g","h","i","j","k","l","m",
                  "n","o","p","q","r","s","t","u","v","w","x","y","z">>

LowerChar(c) ==
    IF \E i \in 1..26 : UpperLetters[i] = c
    THEN LowerLetters[CHOOSE i \in 1..26 : UpperLetters[i] = c]
    ELSE c

\* str.lower()
Lower(s) == [i \in 1..Len(s) |-> LowerChar(s[i])]

IsSpace(c) == c \in {" ", "\t", "\n", "\r"}

RECURSIVE LStrip(_)
LStrip(s) == IF s # <<>> /\ IsSpace(Head(s)) THEN LStrip(Tail(s)) ELSE s

RECURSIVE RStrip(_)
RStrip(s) ==
    IF s # <<>> /\ IsSpace(s[Len(s)]) THEN RStrip(SubSeq(s, 1, Len(s) - 1)) ELSE s

\* str.strip()
Strip(s) == RStrip(LStrip(s))

\* str.startswith(p)
StartsWith(s, p) == Len(s) >= Len(p) /\ SubSeq(s, 1, Len(p)) = p

\* word in s: s has a run of characters equal to word.
Contains(s, word) ==
    \E i \in 1..(Len(s) - Len(word) + 1) : SubSeq(s, i, i + Len(word) - 1) = word

(***************************************************************************)
(* execute_search, lines 57-60: query clean-up.                            *)
(***************************************************************************)
KwSearch == <<"s","e","a","r","c","h"," ">>
KwTstats == <<"t","s","t","a","t","s"," ">>
KwPipe == <<"|">>

SearchPrefixes ==
    {KwSearch, KwTstats,
     <<"i","n","p","u","t","l","o","o","k","u","p"," ">>,
     <<"r","e","s","t"," ">>,
     <<"d","b","q","u","e","r","y"," ">>,
     KwPipe}

NormalizeQuery(q) ==
    LET s == Strip(q)
    IN  IF \E p \in SearchPrefixes : StartsWith(Lower(s), p)
        THEN s
        ELSE KwSearch \o s

(***************************************************************************)
(* execute_search, line 65: strategy selection.                            *)
(***************************************************************************)
\* Variant of UseOneshot: strict comparison of max_results.
UseOneshot_Strict(max_results, timeout) ==
    max_results < OneshotMaxResults /\ timeout >= OneshotMinTimeout

UseOneshot(max_results, timeout) ==
    max_results <= OneshotMaxResults /\ timeout >= OneshotMinTimeout

(***************************************************************************)
(* Values exchanged with the search backend (splunklib).                   *)
(***************************************************************************)
\* Absent value of a record-valued variable (Python None / not yet assigned).
None == [none |-> TRUE]

\* Result rows: dictionaries, and the Message objects a ResultsReader also yields.
Events == {"event1", "event2"}
ReaderMessage == "Message"
IsDict(x) == x \in Events

RECURSIVE SeqsUpTo(_, _)
SeqsUpTo(S, n) ==
    IF n = 0 THEN {<<>>}
    ELSE LET shorter == SeqsUpTo(S, n - 1)
         IN  shorter \cup {Append(s, x) : s \in {t \in shorter : Len(t) = n - 1}, x \in S}

\* What service.jobs.oneshot returns: a stream, described by how its body reads.
\*   json_object   {"results": [...]}          json_array  [...]
\*   json_other    JSON without a results list  json_null   {"results": null}
\*   xml           not JSON, readable by ResultsReader
\*   garbage       not JSON, ResultsReader raises
\*   read_error    stream.read() raises
\*   raw_xml       stream without read(), readable by ResultsReader
\*   raw_garbage   stream without read(), ResultsReader raises
OneshotStreams ==
    {[fmt |-> f, items |-> s] : f \in {"json_object", "json_array"},
                                s \in SeqsUpTo(Events, MaxRecords)}
    \cup {[fmt |-> f, items |-> s] : f \in {"xml", "raw_xml"},
                                     s \in {<<>>, <<ReaderMessage, "event1">>,
                                            <<"event2", ReaderMessage, "event1">>}}
    \cup {[fmt |-> f, items |-> <<>>] :
             f \in {"json_other", "json_null", "garbage", "read_error", "raw_garbage"}}

\* Raw job metadata as job.get(key, 0) hands it over: a decimal text, nothing
\* (the default 0 is used), or a text that is no number.
RawValues ==
    {[kind |-> "num", n |-> k] : k \in 0..MaxCount}
    \cup {[kind |-> "absent"], [kind |-> "bad"]}

\* int(job.get(key, 0)) / float(job.get(key, 0)); raises ValueError on a bad text.
Converts(raw) == raw.kind # "bad"
NumberOf(raw) == IF raw.kind = "num" THEN raw.n ELSE 0

JobMetas ==
    LET Top == [kind |-> "num", n |-> MaxCount]
        Zero == [kind |-> "num", n |-> 0]
    IN  [resultCount : RawValues, runDuration : {Zero}, scanCount : {Top}]
        \cup [resultCount : {Top}, runDuration : RawValues, scanCount : {Zero}]
        \cup [resultCount : {Zero}, runDuration : {Top}, scanCount : RawValues]

TimeoutMessage == "Search timed out after timeout seconds"

(***************************************************************************)
(* _execute_oneshot, lines 97-131: reading the stream into search_results. *)
(* The result is a sequence, or None when the JSON "results" value has no  *)
(* length.                                                                 *)
(***************************************************************************)
ReadResults(reader_items) == SelectSeq(reader_items, IsDict)

\* Variant of ParseOneshot: a body that cannot be read or parsed leaves
\* _execute_oneshot with the exception instead of an empty list.
ParseOneshot_ParseErrorRaises(stream) ==
    CASE stream.fmt \in {"read_error", "garbage", "raw_garbage", "json_null"}
                                    -> [sized |-> FALSE, rows |-> <<>>]
      [] stream.fmt \in {"json_object", "json_array"}
                                    -> [sized |-> TRUE, rows |-> stream.items]
      [] stream.fmt = "json_other"  -> [sized |-> TRUE, rows |-> <<>>]
      [] stream.fmt \in {"xml", "raw_xml"}
                                    -> [sized |-> TRUE, rows |-> SelectSeq(stream.items, IsDict)]

ParseOneshot(stream) ==
    CASE stream.fmt = "read_error"  -> [sized |-> TRUE, rows |-> <<>>]
      [] stream.fmt = "json_object" -> [sized |-> TRUE, rows |-> stream.items]
      [] stream.fmt = "json_array"  -> [sized |-> TRUE, rows |-> stream.items]
      [] stream.fmt = "json_other"  -> [sized |-> TRUE, rows |-> <<>>]
      [] stream.fmt = "json_null"   -> [sized |-> FALSE, rows |-> <<>>]
      [] stream.fmt = "xml"         -> [sized |-> TRUE, rows |-> ReadResults(stream.items)]
      [] stream.fmt = "garbage"     -> [sized |-> TRUE, rows |-> <<>>]
      [] stream.fmt = "raw_xml"     -> [sized |-> TRUE, rows |-> ReadResults(stream.items)]
      [] stream.fmt = "raw_garbage" -> [sized |-> TRUE, rows |-> <<>>]

\* Variant of OneshotSuccess: result_count is set before the stream is read
\* and never updated.
OneshotSuccess_StaleCount(spl_query, search_results, duration) ==
    [success |-> TRUE,
     results |-> search_results,
     statistics |-> [result_count |-> 0,
                     run_duration |-> duration,
                     search_id |-> "oneshot",
                     is_done |-> TRUE],
     query |-> spl_query]

\* _execute_oneshot, lines 133-148: the dictionary returned by the fast path.
OneshotSuccess(spl_query, search_results, duration) ==
    [success |-> TRUE,
     results |-> search_results,
     statistics |-> [result_count |-> Len(search_results),
                     run_duration |-> duration,
                     search_id |-> "oneshot",
                     is_done |-> TRUE],
     query |-> spl_query]

\* _execute_oneshot as a whole, given the stream jobs.oneshot returned:
\* len(None) at line 134 raises TypeError out of the method.
ExecuteOneshot(spl_query, stream, duration) ==
    LET parsed == ParseOneshot(stream)
    IN  IF parsed.sized
        THEN [raised |-> FALSE, value |-> OneshotSuccess(spl_query, parsed.rows, duration)]
        ELSE [raised |-> TRUE, value |-> None]

\* Variant of JobSuccess: result_count is read from scanCount.
JobSuccess_CountFromScan(spl_query, meta, is_done, sid) ==
    [success |-> TRUE,
     results |-> <<>>,
     statistics |-> [result_count |-> NumberOf(meta.scanCount),
                     scan_count |-> NumberOf(meta.scanCount),
                     run_duration |-> NumberOf(meta.runDuration),
                     is_done |-> is_done,
                     search_id |-> sid],
     query |-> spl_query,
     note |-> "details not parsed due to XML issues"]

\* _execute_job_search, lines 180-202: the dictionary returned on completion.
JobSuccess(spl_query, meta, is_done, sid) ==
    [success |-> TRUE,
     results |-> <<>>,
     statistics |-> [result_count |-> NumberOf(meta.resultCount),
                     scan_count |-> NumberOf(meta.scanCount),
                     run_duration |-> NumberOf(meta.runDuration),
                     is_done |-> is_done,
                     search_id |-> sid],
     query |-> spl_query,
     note |-> "details not parsed due to XML issues"]

\* _execute_job_search, lines 204-210.
JobProcessingFailure(spl_query) ==
    [success |-> FALSE, error |-> "Job processing failed", query |-> spl_query]

\* execute_search, lines 74-80: the outer exception handler.
SearchFailure(error, spl_query) ==
    [success |-> FALSE, error |-> error, query |-> spl_query]

\* dict.get(key, default)
Get(d, key, default) == IF key \in DOMAIN d THEN d[key] ELSE default

(***************************************************************************)
(* Inputs of the operations.                                               *)
(***************************************************************************)
QIdx == <<"i","d","x">>
QSearchIdx == KwSearch \o QIdx
QPadded == <<" ","S","e","a","r","c","h"," ","i","d","x"," ">>
QPipeTop == <<"|"," ","t","o","p">>
QDelete == <<"s","e","a","r","c","h"," ","x"," ","|"," ","D","e","l","e","t","e">>

Queries == {QIdx, QPadded, QPipeTop}
MaxResultsInputs == {OneshotMaxResults, OneshotMaxResults + 1}
QuestionErrors == <<"e","r","r","o","r","s","?">>

\* Texts the Translation Gateway works with.
KeyQuery == <<"q","u","e","r","y">>
KeyExplanation == <<"e","x","p","l","a","n","a","t","i","o","n">>
KeyConfidence == <<"c","o","n","f","i","d","e","n","c","e">>
KeyChanges == <<"c","h","a","n","g","e","s">>
ConfMedium == <<"m","e","d","i","u","m">>
ConfLow == <<"l","o","w">>

(***************************************************************************)
(* State.                                                                  *)
(***************************************************************************)
VARIABLES
    service,       \* SplunkClient.service: "connected" or "absent" (None)
    cache,         \* QueryProcessor._cache: None or [age, data] under "splunk_context"
    op,            \* operation in progress: "idle", "exec", "spl", "nl"
    pc,            \* position inside the operation
    question,      \* question / partial_question argument of the orchestrator
    splQuery,      \* spl_query of the orchestrator operation
    maxResults,    \* max_results argument
    timeout,       \* timeout argument of execute_search
    execQuery,     \* spl_query local to execute_search
    context,       \* context handed to natural_to_spl
    splResult,     \* natural_to_spl result
    validation,    \* validate_spl result
    searchResult,  \* execute_search return value
    response,      \* what the operation returned: a dictionary, or [value |-> list]
    job,           \* job created by service.jobs.create
    elapsed,       \* time.time() - start_time of the wait loop, in ticks
    calls,         \* history: calls made during the operation, in order
    fastPath,      \* history: "not_attempted", "raised", "returned"
    stream,        \* history: what jobs.oneshot returned
    waitEnd,       \* history: how the wait loop was left
    meta,          \* history: job metadata read after the wait loop
    raised,        \* exception that escaped the operation ("" if none)
    listing,       \* history: what the backend listing (indexes, jobs) gave
    completion,    \* history: what the completion call gave
    parseOnly,      \* history: how the parse-only request of validate_spl went
    http,           \* answer of the HTTP route that started the operation, or None
    callers        \* callers inside _get_splunk_context, when several share the orchestrator

vars == <<service, cache, op, pc, question, splQuery, maxResults, timeout,
          execQuery, context, splResult, validation, searchResult, response, job,
          elapsed, calls, fastPath, stream, waitEnd, meta, raised, listing,
          completion, parseOnly, http, callers>>

Call(name, query) == [call |-> name, query |-> query]

\* State after construction: SplunkClient.__init__ connected (or raised, and
\* then no client exists), QueryProcessor.__init__ set _cache = {}.
Init ==
    /\ service = "connected"
    /\ cache = None
    /\ op = "idle"
    /\ pc = "idle"
    /\ question = <<>>
    /\ splQuery = <<>>
    /\ maxResults = 0
    /\ timeout = 0
    /\ execQuery = <<>>
    /\ context = None
    /\ splResult = None
    /\ validation = None
    /\ searchResult = None
    /\ response = None
    /\ job = None
    /\ elapsed = 0
    /\ calls = <<>>
    /\ fastPath = "not_attempted"
    /\ stream = None
    /\ waitEnd = "none"
    /\ meta = None
    /\ raised = ""
    /\ listing = None
    /\ completion = None
    /\ parseOnly = "none"
    /\ http = None
    /\ callers = None

(***************************************************************************)
(* Query Orchestrator: the dictionaries it returns.                        *)
(***************************************************************************)
EmptyDict == <<>>

\* Variant of SearchFields: result_count is taken from the statistics.
SearchFields_CountFromStatistics(search_result, validation_result) ==
    [success |-> Get(search_result, "success", FALSE),
     results |-> Get(search_result, "results", <<>>),
     result_count |-> Get(Get(search_result, "statistics", EmptyDict), "result_count", 0),
     statistics |-> Get(search_result, "statistics", EmptyDict),
     validation |-> validation_result,
     processing_time |-> "elapsed"]

\* process_natural_language_query, lines 71-85 / execute_spl_query, lines 122-133:
\* the fields both responses take from the search result.
SearchFields(search_result, validation_result) ==
    [success |-> Get(search_result, "success", FALSE),
     results |-> Get(search_result, "results", <<>>),
     result_count |-> Len(Get(search_result, "results", <<>>)),
     statistics |-> Get(search_result, "statistics", EmptyDict),
     validation |-> validation_result,
     processing_time |-> "elapsed"]

ErrorField(search_result) ==
    IF Get(search_result, "success", FALSE)
    THEN EmptyDict
    ELSE [error |-> Get(search_result, "error", "Unknown execution error")]

\* Variant of SplResponse: the query as execute_search ran it is reported.
SplResponse_ExecutedQuery(spl_query, search_result, validation_result) ==
    [spl_query |-> Get(search_result, "query", spl_query)]
    @@ SearchFields(search_result, validation_result)
    @@ ErrorField(search_result)

\* execute_spl_query, lines 122-135.
SplResponse(spl_query, search_result, validation_result) ==
    [spl_query |-> spl_query]
    @@ SearchFields(search_result, validation_result)
    @@ ErrorField(search_result)

\* execute_spl_query, lines 137-144.
SplExceptionResponse(error, spl_query) ==
    [success |-> FALSE, error |-> error, spl_query |-> spl_query,
     processing_time |-> "elapsed"]

\* Variant of NLResponse: the query as execute_search ran it is reported.
NLResponse_ExecutedQuery(q, spl_query, spl_result, search_result, validation_result) ==
    [question |-> q,
     spl_query |-> Get(search_result, "query", spl_query),
     explanation |-> Get(spl_result, "explanation", <<>>),
     confidence |-> Get(spl_result, "confidence", ConfMedium)]
    @@ SearchFields(search_result, validation_result)
    @@ ErrorField(search_result)

\* Variant of NLResponse: a negative validation makes the response a failure.
NLResponse_ValidationGated(q, spl_query, spl_result, search_result, validation_result) ==
    [question |-> q,
     spl_query |-> spl_query,
     explanation |-> Get(spl_result, "explanation", <<>>),
     confidence |-> Get(spl_result, "confidence", ConfMedium),
     success |-> Get(search_result, "success", FALSE)
                 /\ Get(validation_result, "valid", FALSE)]
    @@ SearchFields(search_result, validation_result)
    @@ ErrorField(search_result)

\* process_natural_language_query, lines 71-89.
NLResponse(q, spl_query, spl_result, search_result, validation_result) ==
    [question |-> q,
     spl_query |-> spl_query,
     explanation |-> Get(spl_result, "explanation", <<>>),
     confidence |-> Get(spl_result, "confidence", ConfMedium)]
    @@ SearchFields(search_result, validation_result)
    @@ ErrorField(search_result)

\* process_natural_language_query, lines 91-98.
NLExceptionResponse(error, q) ==
    [success |-> FALSE, error |-> error, question |-> q,
     processing_time |-> "elapsed"]

(***************************************************************************)
(* Search Executor: execute_search, step by step.                          *)
(***************************************************************************)
\* A direct caller invokes execute_search(spl_query, max_results, timeout).
StartExecuteSearch(q, mr, to) ==
    /\ op = "idle"
    /\ op' = "exec"
    /\ pc' = "exec_entry"
    /\ splQuery' = q
    /\ maxResults' = mr
    /\ timeout' = to
    /\ UNCHANGED <<service, cache, question, execQuery, context, splResult, validation,
                   searchResult, response, job, elapsed, calls, fastPath,
                   stream, waitEnd, meta, raised,
                   listing, completion, parseOnly, http, callers>>

\* Variant of OnOneshotError: the oneshot exception ends the call.
OnOneshotError_NoFallback == "return"

\* execute_search, line 68: where the call continues when _execute_oneshot raises.
OnOneshotError == "job_create"

\* Variant of Escapes: execute_spl_query has no handler either.
Escapes_SplUnguarded(operation) == operation \in {"exec", "spl"}

\* Where an exception leaving execute_search ends up: the handlers of
\* execute_spl_query (line 137) and process_natural_language_query (line 91)
\* turn it into a response; a direct caller of execute_search receives it.
Escapes(operation) == operation = "exec"

\* execute_search, lines 53-72: reconnect if the handle is absent (outside the
\* try: a failure leaves the method), clean the query, select the strategy.
ExecuteSearchEntry ==
    /\ pc = "exec_entry"
    /\ \E connect_ok \in (IF service = "absent" THEN BOOLEAN ELSE {TRUE}) :
         LET attempt == IF service = "absent" THEN <<Call("connect", <<>>)>> ELSE <<>>
         IN  IF connect_ok
             THEN /\ service' = "connected"
                  /\ execQuery' = NormalizeQuery(splQuery)
                  /\ calls' = calls \o attempt \o <<Call("execute_search", splQuery)>>
                  /\ pc' = IF UseOneshot(maxResults, timeout)
                           THEN "oneshot" ELSE "job_create"
                  /\ UNCHANGED <<response, raised>>
             ELSE /\ calls' = calls \o attempt \o <<Call("execute_search", splQuery)>>
                  /\ pc' = "done"
                  /\ raised' = IF Escapes(op) THEN "Connection failed" ELSE raised
                  /\ response' =
                        CASE Escapes(op) -> response
                          [] op = "spl" -> SplExceptionResponse("Connection failed", splQuery)
                          [] op = "nl" -> NLExceptionResponse("Connection failed", question)
                          [] OTHER -> response
                  /\ UNCHANGED <<service, execQuery>>
    /\ UNCHANGED <<cache, op, question, splQuery, maxResults, timeout, context, splResult,
                   validation, searchResult, job, elapsed, fastPath, stream,
                   waitEnd, meta,
                   listing, completion, parseOnly, http, callers>>

\* execute_search, lines 66-69 with _execute_oneshot, lines 82-148.
ExecuteOneshotStep ==
    /\ pc = "oneshot"
    /\ calls' = Append(calls, Call("jobs.oneshot", execQuery))
    /\ \/ /\ fastPath' = "raised"
          /\ pc' = OnOneshotError
          /\ UNCHANGED <<stream, searchResult>>
       \/ \E st \in OneshotStreams, d \in {0, MaxCount} :
            LET r == ExecuteOneshot(execQuery, st, d)
            IN  /\ stream' = st
                /\ IF r.raised
                   THEN /\ fastPath' = "raised"
                        /\ pc' = OnOneshotError
                        /\ UNCHANGED searchResult
                   ELSE /\ fastPath' = "returned"
                        /\ pc' = "return"
                        /\ searchResult' = r.value
    /\ UNCHANGED <<service, cache, op, question, splQuery, maxResults, timeout,
                   execQuery, context, splResult, validation, response, job, elapsed,
                   waitEnd, meta, raised,
                   listing, completion, parseOnly, http, callers>>

\* _execute_job_search, lines 155-164: create the job, note start_time.
CreateJob ==
    /\ pc = "job_create"
    /\ calls' = Append(calls, Call("jobs.create", execQuery))
    /\ \/ /\ job' = [sid |-> "sid1"]
          /\ elapsed' = 0
          /\ pc' = "poll"
          /\ UNCHANGED <<searchResult, waitEnd>>
       \/ /\ searchResult' = SearchFailure("jobs.create failed", execQuery)
          /\ waitEnd' = "create_failed"
          /\ pc' = "return"
          /\ UNCHANGED <<job, elapsed>>
    /\ UNCHANGED <<service, cache, op, question, splQuery, maxResults, timeout,
                   execQuery, context, splResult, validation, response, fastPath, stream,
                   meta, raised,
                   listing, completion, parseOnly, http, callers>>

\* Variant of TimedOut: the deadline is noticed two polls late.
TimedOut_Late(elapsed_ticks, timeout_seconds) ==
    elapsed_ticks > timeout_seconds * TicksPerSecond + 2 * MaxSleepTicks

\* _execute_job_search, line 166: the deadline test of the wait loop.
TimedOut(elapsed_ticks, timeout_seconds) ==
    elapsed_ticks > timeout_seconds * TicksPerSecond

\* Variant of TimeoutOutcome: an exception of job.cancel() is not swallowed.
TimeoutOutcome_CancelPropagates(cancel_ok, spl_query) ==
    IF cancel_ok
    THEN SearchFailure(TimeoutMessage, spl_query)
    ELSE SearchFailure("job.cancel failed", spl_query)

\* _execute_job_search, lines 167-171 with execute_search, lines 74-80:
\* what the call returns when job.cancel() returned (TRUE) or raised (FALSE).
TimeoutOutcome(cancel_ok, spl_query) == SearchFailure(TimeoutMessage, spl_query)

\* _execute_job_search, lines 165-177: one iteration of the wait loop.
\* is_done() asks the backend and may raise; sleep(0.5) takes at least one tick.
\* start_time is local to the loop: elapsed is forgotten when the loop is left.
PollJob ==
    /\ pc = "poll"
    /\ \/ /\ waitEnd' = "is_done_failed"
          /\ searchResult' = SearchFailure("is_done failed", execQuery)
          /\ pc' = "return"
          /\ elapsed' = 0
          /\ UNCHANGED calls
       \/ /\ waitEnd' = "done"
          /\ pc' = "job_info"
          /\ elapsed' = 0
          /\ UNCHANGED <<calls, searchResult>>
       \/ /\ TimedOut(elapsed, timeout)
          /\ \E cancel_ok \in BOOLEAN :
               /\ calls' = Append(calls, Call(IF cancel_ok THEN "job.cancel"
                                              ELSE "job.cancel failed", execQuery))
               /\ searchResult' = TimeoutOutcome(cancel_ok, execQuery)
          /\ waitEnd' = "timeout"
          /\ pc' = "return"
          /\ elapsed' = 0
       \/ /\ ~TimedOut(elapsed, timeout)
          /\ \E d \in 1..MaxSleepTicks, refresh_ok \in BOOLEAN :
               IF refresh_ok
               THEN pc' = "poll" /\ elapsed' = elapsed + d /\ UNCHANGED waitEnd
               ELSE pc' = "job_info" /\ elapsed' = 0 /\ waitEnd' = "refresh_failed"
          /\ UNCHANGED <<calls, searchResult>>
    /\ UNCHANGED <<service, cache, op, question, splQuery, maxResults, timeout,
                   execQuery, context, splResult, validation, response, job, fastPath,
                   stream, meta, raised,
                   listing, completion, parseOnly, http, callers>>

\* _execute_job_search, lines 179-210: read the job's metadata; job.get and
\* is_done() are calls on the backend's job object and may raise.  After the loop
\* was left on completion is_done() stays true; after a failed refresh it may
\* report either.
JobInfo ==
    /\ pc = "job_info"
    /\ \/ \E m \in JobMetas, done \in (IF waitEnd = "done" THEN {TRUE} ELSE BOOLEAN) :
            /\ meta' = m
            /\ searchResult' =
                 IF Converts(m.resultCount) /\ Converts(m.runDuration)
                    /\ Converts(m.scanCount)
                 THEN JobSuccess(execQuery, m, done, job.sid)
                 ELSE JobProcessingFailure(execQuery)
       \/ /\ meta' = None
          /\ searchResult' = JobProcessingFailure(execQuery)
    /\ pc' = "return"
    /\ UNCHANGED <<service, cache, op, question, splQuery, maxResults, timeout,
                   execQuery, context, splResult, validation, response, job, elapsed,
                   calls, fastPath, stream, waitEnd, raised,
                   listing, completion, parseOnly, http, callers>>

(***************************************************************************)
(* Search Executor: get_indexes and validate_spl.                          *)
(***************************************************************************)
Range(f) == {f[i] : i \in DOMAIN f}

\* The index names of the model in the order sorted() puts them.
IndexOrder == <<"_audit", "_internal", "main", "summary">>
SortNames(names) == SelectSeq(IndexOrder, LAMBDA n : n \in Range(names))

DefaultIndexes == <<"main", "_internal", "_audit", "summary">>

IndexListings == {[ok |-> TRUE, names |-> <<"main", "_audit">>],
                  [ok |-> FALSE, names |-> <<>>]}

\* Variant of ConnectAttempt: a second attempt follows the first.
ConnectAttempt_Retry(svc) ==
    IF svc = "absent" THEN <<Call("connect", <<>>), Call("connect", <<>>)>> ELSE <<>>

\* get_indexes, lines 215-216, and get_search_history, lines 256-257: _connect
\* is called, once, when the handle is absent.
ConnectAttempt(svc) ==
    IF svc = "absent" THEN <<Call("connect", <<>>)>> ELSE <<>>

\* The attempt to connect raised (line 216), so nothing was listed.
ConnectFailed == [ok |-> FALSE, connect |-> FALSE]

\* get_indexes, lines 212-227: never raises; the handle is (re)established
\* inside the try.  value is what is returned, listing what the backend gave.
GetIndexes(svc, connect_ok, l) ==
    IF svc = "absent" /\ ~connect_ok
    THEN [value |-> DefaultIndexes, service |-> "absent", listing |-> ConnectFailed]
    ELSE [value |-> IF l.ok THEN SortNames(l.names) ELSE DefaultIndexes,
          service |-> "connected", listing |-> l]

\* Jobs as service.jobs.list hands them over: the texts of runDuration and
\* resultCount are converted by float() and int() (lines 265-266).
ListedJobs ==
    {[sid |-> "sid1", search |-> "search idx", createTime |-> "t1",
      runDuration |-> [kind |-> "num", n |-> 1],
      resultCount |-> [kind |-> "num", n |-> 1]],
     [sid |-> "sid2", search |-> "", createTime |-> "",
      runDuration |-> [kind |-> "absent"],
      resultCount |-> [kind |-> "absent"]],
     [sid |-> "sid3", search |-> "search idx", createTime |-> "t3",
      runDuration |-> [kind |-> "num", n |-> 0],
      resultCount |-> [kind |-> "bad"]]}

JobListings ==
    {[ok |-> FALSE, jobs |-> <<>>]}
    \cup {[ok |-> TRUE, jobs |-> j] : j \in SeqsUpTo(ListedJobs, MaxJobs)}

\* get_search_history, lines 261-267: one entry of the returned list.
HistoryEntry(j) ==
    [sid |-> j.sid, search |-> j.search, create_time |-> j.createTime,
     run_duration |-> NumberOf(j.runDuration),
     result_count |-> NumberOf(j.resultCount)]

EntryConverts(j) == Converts(j.runDuration) /\ Converts(j.resultCount)

\* Variant of GetSearchHistory: the entries built before the failure are returned.
GetSearchHistory_Partial(svc, connect_ok, l) ==
    IF svc = "absent" /\ ~connect_ok
    THEN [value |-> <<>>, service |-> "absent", listing |-> ConnectFailed]
    ELSE LET good == {n \in 0..Len(l.jobs) :
                        \A i \in 1..n : EntryConverts(l.jobs[i])}
             last == CHOOSE n \in good : \A m \in good : m <= n
         IN  [value |-> [i \in 1..last |-> HistoryEntry(l.jobs[i])],
              service |-> "connected", listing |-> l]

\* get_search_history, lines 253-273: never raises; any failure, a bad entry
\* included, gives the empty list.
GetSearchHistory(svc, connect_ok, l) ==
    IF svc = "absent" /\ ~connect_ok
    THEN [value |-> <<>>, service |-> "absent", listing |-> ConnectFailed]
    ELSE [value |-> IF l.ok /\ \A i \in 1..Len(l.jobs) : EntryConverts(l.jobs[i])
                    THEN [i \in 1..Len(l.jobs) |-> HistoryEntry(l.jobs[i])]
                    ELSE <<>>,
          service |-> "connected", listing |-> l]

\* Variant of ValidateSplResult: the verdict of the backend is not looked at.
ValidateSplResult_AlwaysValid(svc, connect_ok, accepted, spl_query) ==
    [valid |-> TRUE, query |-> spl_query]

\* validate_spl, lines 229-251.
ValidateSplResult(svc, connect_ok, accepted, spl_query) ==
    IF svc = "absent" /\ ~connect_ok
    THEN [valid |-> FALSE, error |-> "Connection failed", query |-> spl_query]
    ELSE IF accepted
         THEN [valid |-> TRUE, query |-> spl_query]
         ELSE [valid |-> FALSE, error |-> "Invalid SPL", query |-> spl_query]

(***************************************************************************)
(* Query Orchestrator: environment context cache.                          *)
(***************************************************************************)
CommonFields == <<"host", "source", "sourcetype", "_time", "index", "user",
                  "action", "status", "method", "uri_path", "src_ip", "dest_ip",
                  "bytes", "duration">>

\* _get_splunk_context, lines 205-208: the context of the except branch.
MinimalContext == [indexes |-> <<"main", "_internal">>,
                   common_fields |-> <<"host", "source", "sourcetype", "_time">>]

TtlTicks == ContextCacheTtl * TicksPerSecond

\* Variant of CacheHit: an entry exactly as old as the TTL is still served.
CacheHit_Inclusive(c) == c # None /\ c.age <= TtlTicks

\* _get_splunk_context, lines 183-186.  The entry (cached_time, cached_data) is
\* kept as [age, data] with age = time.time() - cached_time.
CacheHit(c) == c # None /\ c.age < TtlTicks

(***************************************************************************)
(* Translation Gateway: natural_to_spl and _parse_spl_response.             *)
(***************************************************************************)
\* The first position from i on where s has c, 0 if there is none.
IndexFrom(s, c, i) ==
    IF \E j \in i..Len(s) : s[j] = c
    THEN CHOOSE j \in i..Len(s) : s[j] = c /\ \A k \in i..(j - 1) : s[k] # c
    ELSE 0

\* The first position from i on that holds no white space, Len(s) + 1 if none.
SkipSpace(s, i) ==
    IF \E j \in i..Len(s) : ~IsSpace(s[j])
    THEN CHOOSE j \in i..Len(s) : ~IsSpace(s[j]) /\ \A k \in i..(j - 1) : IsSpace(s[k])
    ELSE Len(s) + 1

\* json.loads on the documents the model uses: an object whose members are
\* strings without escapes, or the empty array, with white space allowed
\* between the tokens.  Any other text is rejected.
\* A string token at the first non-space position from i0 on; next is the
\* position of the token that follows it.
JsonString(s, i0) ==
    LET i == SkipSpace(s, i0)
    IN  IF i <= Len(s) /\ s[i] = "\"" /\ IndexFrom(s, "\"", i + 1) # 0
        THEN LET j == IndexFrom(s, "\"", i + 1)
             IN  [ok |-> TRUE, value |-> SubSeq(s, i + 1, j - 1),
                  next |-> SkipSpace(s, j + 1)]
        ELSE [ok |-> FALSE]

RECURSIVE JsonMembers(_, _, _)
JsonMembers(s, i, acc) ==
    LET k == JsonString(s, i)
    IN  IF ~k.ok \/ k.next > Len(s) \/ s[k.next] # ":"
        THEN [ok |-> FALSE]
        ELSE LET v == JsonString(s, k.next + 1)
             IN  IF ~v.ok \/ v.next > Len(s)
                 THEN [ok |-> FALSE]
                 ELSE LET d == (k.value :> v.value) @@ acc
                      IN  IF s[v.next] = "}"
                          THEN IF v.next = Len(s)
                               THEN [ok |-> TRUE, object |-> TRUE, value |-> d]
                               ELSE [ok |-> FALSE]
                          ELSE IF s[v.next] = ","
                               THEN JsonMembers(s, v.next + 1, d)
                               ELSE [ok |-> FALSE]

JsonLoads(text) ==
    LET t == Strip(text)
    IN  IF t = <<"[", "]">>
        THEN [ok |-> TRUE, object |-> FALSE]
        ELSE IF StartsWith(t, <<"{">>) /\ SkipSpace(t, 2) = Len(t) /\ t[Len(t)] = "}"
        THEN [ok |-> TRUE, object |-> TRUE, value |-> <<>>]
        ELSE IF StartsWith(t, <<"{">>)
        THEN JsonMembers(t, 2, <<>>)
        ELSE [ok |-> FALSE]

\* str.split('\n')
RECURSIVE SplitLines(_)
SplitLines(s) ==
    LET n == IndexFrom(s, "\n", 1)
    IN  IF n = 0 THEN <<s>>
        ELSE <<SubSeq(s, 1, n - 1)>> \o SplitLines(SubSeq(s, n + 1, Len(s)))

TextJson ==
    <<"{","\"","q","u","e","r","y","\"",":","\"","s","e","a","r","c","h"," ",
      "i","d","x","\"",",","\"","e","x","p","l","a","n","a","t","i","o","n",
      "\"",":","\"","f","i","n","d","s"," ","i","d","x","\"",",","\"","c","o",
      "n","f","i","d","e","n","c","e","\"",":","\"","h","i","g","h","\"","}">>
TextJsonBare ==
    <<"{"," ","\"","q","u","e","r","y","\""," ",":"," ","\"","i","d","x","\"",
      " ","}","\n">>
TextJsonNoQuery ==
    <<"{","\"","e","x","p","l","a","n","a","t","i","o","n","\"",":","\"","n",
      "o"," ","q","u","e","r","y","\"","}">>
TextBrokenJson ==
    <<"{","\"","q","u","e","r","y","\"",":","\n","s","e","a","r","c","h"," ",
      "i","d","x">>
TextPlain ==
    <<"s","e","a","r","c","h"," ","i","d","x">>
TextLines ==
    <<"I","t"," ","d","o","e","s"," ","t","h","i","s",":","\n"," ","s","e",
      "a","r","c","h"," ","i","d","x"," ","\n">>
TextNoSearch ==
    <<"n","o"," ","i","d","e","a">>

Contents ==
    {TextJson, TextJsonBare, TextJsonNoQuery, TextBrokenJson, TextPlain,
     TextLines, TextNoSearch, <<"[","]">>,
     <<"{","\"","q","u","e","r","y","\"",":","\"">> \o QDelete \o <<"\"","}">>}

\* What the completion call gives (natural_to_spl lines 39-50, enhance_spl_query
\* lines 180-190): it raises, or the message holds a text, or no text (None).
CompletionResults ==
    {[raised |-> TRUE], [raised |-> FALSE, text |-> FALSE]}
    \cup {[raised |-> FALSE, text |-> TRUE, content |-> t] : t \in Contents}

\* _parse_spl_response, lines 117-132: the last line starting with 'search '
\* is the query, the last other line with 'explanation' or 'does' the
\* explanation.
LineScan(content) ==
    LET lines == SplitLines(content)
        line(i) == Strip(lines[i])
        queries == {i \in DOMAIN lines : StartsWith(line(i), KwSearch)}
        explanations == {i \in DOMAIN lines \ queries :
                            \/ Contains(Lower(line(i)), KeyExplanation)
                            \/ Contains(Lower(line(i)), <<"d","o","e","s">>)}
        Last(S) == CHOOSE i \in S : \A k \in S : k <= i
    IN  (KeyQuery :> (IF queries = {} THEN <<>> ELSE line(Last(queries))))
        @@ (KeyExplanation :> (IF explanations = {} THEN <<>>
                               ELSE line(Last(explanations))))
        @@ (KeyConfidence :> ConfMedium)

\* _parse_spl_response, lines 134-148: the handler of the parse.
ParseFallback(content) ==
    IF StartsWith(Strip(content), KwSearch)
    THEN (KeyQuery :> Strip(content)) @@ (KeyExplanation :>
                <<"Q","u","e","r","y"," ","g","e","n","e","r","a","t","e","d"," ",
                  "f","r","o","m"," ","n","a","t","u","r","a","l"," ",
                  "l","a","n","g","u","a","g","e">>)
         @@ (KeyConfidence :> ConfLow)
    ELSE (KeyQuery :> <<>>) @@ (KeyExplanation :>
                <<"F","a","i","l","e","d"," ","t","o"," ","p","a","r","s","e"," ",
                  "r","e","s","p","o","n","s","e">>)
         @@ (KeyConfidence :> ConfLow)

\* _parse_spl_response, lines 109-148.  Without a text, content.strip() raises
\* in the try and again in the handler, and the exception leaves the method.
ParseSplResponse(c) ==
    IF ~c.text
    THEN [raised |-> TRUE]
    ELSE IF StartsWith(Strip(c.content), <<"{">>)
    THEN IF JsonLoads(c.content).ok
         THEN [raised |-> FALSE, info |-> JsonLoads(c.content).value]
         ELSE [raised |-> FALSE, info |-> ParseFallback(c.content)]
    ELSE [raised |-> FALSE, info |-> LineScan(c.content)]

\* natural_to_spl, lines 30-69.
NaturalToSpl(q, c) ==
    IF c.raised \/ ParseSplResponse(c).raised
    THEN [success |-> FALSE, error |-> "completion failed", original_question |-> q]
    ELSE LET spl_info == ParseSplResponse(c).info
         IN  [success |-> TRUE,
              spl_query |-> Get(spl_info, KeyQuery, <<>>),
              explanation |-> Get(spl_info, KeyExplanation, <<>>),
              confidence |-> Get(spl_info, KeyConfidence, ConfMedium),
              original_question |-> q]

(***************************************************************************)
(* Translation Gateway: enhance_spl_query.                                 *)
(***************************************************************************)
EnhanceFailure(spl_query) ==
    [success |-> FALSE, error |-> "enhancement failed", original_query |-> spl_query]

\* Variant of EnhanceSplQuery: a text that is no JSON is scanned line by line.
EnhanceSplQuery_LineScan(spl_query, c) ==
    IF c.raised \/ ~c.text
    THEN EnhanceFailure(spl_query)
    ELSE LET enhanced_info == IF JsonLoads(c.content).ok /\ JsonLoads(c.content).object
                              THEN JsonLoads(c.content).value
                              ELSE LineScan(c.content)
         IN  [success |-> TRUE,
              enhanced_query |-> Get(enhanced_info, KeyQuery, spl_query),
              changes |-> Get(enhanced_info, KeyChanges, <<>>),
              confidence |-> Get(enhanced_info, KeyConfidence, ConfMedium),
              original_query |-> spl_query]

\* enhance_spl_query, lines 161-207: the call raising, a message without text,
\* json.loads raising and a JSON value without .get all end in the handler.
EnhanceSplQuery(spl_query, c) ==
    IF c.raised \/ ~c.text
    THEN EnhanceFailure(spl_query)
    ELSE IF ~JsonLoads(c.content).ok \/ ~JsonLoads(c.content).object
    THEN EnhanceFailure(spl_query)
    ELSE LET enhanced_info == JsonLoads(c.content).value
         IN  [success |-> TRUE,
              enhanced_query |-> Get(enhanced_info, KeyQuery, spl_query),
              changes |-> Get(enhanced_info, KeyChanges, <<>>),
              confidence |-> Get(enhanced_info, KeyConfidence, ConfMedium),
              original_query |-> spl_query]

(***************************************************************************)
(* Query Orchestrator: get_query_suggestions.                              *)
(***************************************************************************)
\* get_query_suggestions, lines 156-167: the catalog.
Suggestions ==
    <<<<"S","h","o","w"," ","m","e"," ","e","r","r","o","r"," ","l","o","g","s",
        " ","f","r","o","m"," ","t","h","e"," ","l","a","s","t"," ","h","o","u",
        "r">>,
      <<"W","h","a","t"," ","a","r","e"," ","t","h","e"," ","t","o","p"," ","s",
        "o","u","r","c","e"," ","I","P","s"," ","b","y"," ","t","r","a","f","f",
        "i","c"," ","v","o","l","u","m","e","?">>,
      <<"F","i","n","d"," ","f","a","i","l","e","d"," ","l","o","g","i","n"," ",
        "a","t","t","e","m","p","t","s"," ","i","n"," ","t","h","e"," ","l","a",
        "s","t"," ","2","4"," ","h","o","u","r","s">>,
      <<"S","h","o","w"," ","m","e"," ","t","h","e"," ","m","o","s","t"," ","c",
        "o","m","m","o","n"," ","H","T","T","P"," ","s","t","a","t","u","s"," ",
        "c","o","d","e","s">>,
      <<"W","h","i","c","h"," ","u","s","e","r","s"," ","h","a","v","e"," ","l",
        "o","g","g","e","d"," ","i","n"," ","t","o","d","a","y","?">>,
      <<"W","h","a","t"," ","a","r","e"," ","t","h","e"," ","t","o","p"," ","1",
        "0"," ","p","r","o","c","e","s","s","e","s"," ","b","y"," ","C","P","U",
        " ","u","s","a","g","e","?">>,
      <<"S","h","o","w"," ","m","e"," ","s","e","c","u","r","i","t","y"," ","e",
        "v","e","n","t","s"," ","f","r","o","m"," ","t","h","e"," ","l","a","s",
        "t"," ","w","e","e","k">>,
      <<"F","i","n","d"," ","a","l","l"," ","4","0","4"," ","e","r","r","o","r",
        "s"," ","i","n"," ","w","e","b"," ","l","o","g","s">>,
      <<"W","h","a","t"," ","h","o","s","t","s"," ","a","r","e"," ","g","e","n",
        "e","r","a","t","i","n","g"," ","t","h","e"," ","m","o","s","t"," ","e",
        "v","e","n","t","s","?">>,
      <<"S","h","o","w"," ","m","e"," ","d","a","t","a","b","a","s","e"," ","c",
        "o","n","n","e","c","t","i","o","n"," ","e","r","r","o","r","s">>>>

\* str.split(): the maximal runs of non-space characters.
Words(s) ==
    {SubSeq(s, i, j) : <<i, j>> \in
        {p \in (1..Len(s)) \X (1..Len(s)) :
            /\ p[1] <= p[2]
            /\ \A k \in p[1]..p[2] : ~IsSpace(s[k])
            /\ (p[1] = 1 \/ IsSpace(s[p[1] - 1]))
            /\ (p[2] = Len(s) \/ IsSpace(s[p[2] + 1]))}}

\* Variant of GetQuerySuggestions: every match is returned.
GetQuerySuggestions_Uncapped(partial_question) ==
    LET partial_lower == Lower(partial_question)
    IN  SelectSeq(Suggestions,
                  LAMBDA s : \E word \in Words(partial_lower) :
                                Contains(Lower(s), word))

\* get_query_suggestions, lines 170-176.
GetQuerySuggestions(partial_question) ==
    LET partial_lower == Lower(partial_question)
        filtered == SelectSeq(Suggestions,
                        LAMBDA s : \E word \in Words(partial_lower) :
                                      Contains(Lower(s), word))
    IN  SubSeq(filtered, 1, IF Len(filtered) < 5 THEN Len(filtered) ELSE 5)

PartialMany == <<"z","z"," "," ","t","h","e">>
Partials == {<<>>, <<" ">>, <<"L","o","g","i","n">>, PartialMany}

(***************************************************************************)
(* Query Orchestrator: get_health_status.                                  *)
(***************************************************************************)
\* What reading openai_client.client.api_key gives (line 234).
ApiKeyReads == {[raised |-> FALSE, key |-> "sk-key"],
                [raised |-> FALSE, key |-> ""],
                [raised |-> TRUE]}

\* get_health_status, lines 232-244.
OpenAiHealth(key_read) ==
    IF key_read.raised
    THEN [status |-> "error", error |-> "no api key attribute"]
    ELSE IF key_read.key # ""
         THEN [status |-> "configured"]
         ELSE [status |-> "not_configured"]

\* get_health_status, lines 212-246.  get_indexes returns a list whatever the
\* backend does, so lines 224-229 are never run.
GetHealthStatus(indexes, key_read) ==
    [timestamp |-> "now",
     overall_status |-> IF OpenAiHealth(key_read).status = "configured"
                        THEN "healthy" ELSE "degraded",
     splunk |-> [status |-> "connected", indexes_count |-> Len(indexes)],
     openai |-> OpenAiHealth(key_read)]

(***************************************************************************)
(* Input Validator (src/src/utils/validators.py).  A verdict is the pair   *)
(* (is_valid, error_message) the functions return.                         *)
(***************************************************************************)

\* The characters the regular expressions' \b counts as part of a word.
IsWordChar(c) ==
    \/ \E i \in 1..26 : c = LowerLetters[i] \/ c = UpperLetters[i]
    \/ c \in {"0", "1", "2", "3", "4", "5", "6", "7", "8", "9"}
    \/ c = "_"

\* re.search(r'\b' + word + r'\b', s), for a word made of word characters.
ContainsWord(s, word) ==
    \E i \in 1..(Len(s) - Len(word) + 1) :
        /\ SubSeq(s, i, i + Len(word) - 1) = word
        /\ (i = 1 \/ ~IsWordChar(s[i - 1]))
        /\ (i + Len(word) > Len(s) \/ ~IsWordChar(s[i + Len(word)]))

\* re.search(first + r'\s*' + second, s), for two single characters or words.
ContainsSpaced(s, first, second) ==
    \E i \in 1..(Len(s) - Len(first) + 1) :
        /\ SubSeq(s, i, i + Len(first) - 1) = first
        /\ StartsWith(LStrip(SubSeq(s, i + Len(first), Len(s))), second)

MinQuestionLength == 5
MaxQuestionLength == 1000
MaxSplLength == 5000
MaxMaxResults == 10000

\* suspicious_patterns, lines 30-38: the plain ones and the call-like ones.
SuspiciousTexts ==
    {<<"<","s","c","r","i","p","t">>,
     <<"j","a","v","a","s","c","r","i","p","t",":">>,
     <<"_","_","i","m","p","o","r","t","_","_">>,
     <<"s","u","b","p","r","o","c","e","s","s">>}

SuspiciousCalls ==
    {<<"e","v","a","l">>, <<"e","x","e","c">>, <<"s","y","s","t","e","m">>}

Verdict(is_valid, error_message) == [valid |-> is_valid, error |-> error_message]

\* validate_natural_language_question, lines 10-44.
ValidateNaturalLanguageQuestion(q) ==
    IF q = <<>> \/ Strip(q) = <<>>
    THEN Verdict(FALSE, "Question cannot be empty")
    ELSE IF Len(Strip(q)) < MinQuestionLength
    THEN Verdict(FALSE, "Question must be at least 5 characters long")
    ELSE IF Len(q) > MaxQuestionLength
    THEN Verdict(FALSE, "Question must be less than 1000 characters")
    ELSE IF \/ \E t \in SuspiciousTexts : Contains(Lower(q), t)
            \/ \E t \in SuspiciousCalls : ContainsSpaced(Lower(q), t, <<"(">>)
    THEN Verdict(FALSE, "Question contains potentially unsafe content")
    ELSE Verdict(TRUE, "")

\* dangerous_commands, lines 70-82.
DangerousCommands ==
    {<<"d","e","l","e","t","e">>,
     <<"d","r","o","p">>,
     <<"t","r","u","n","c","a","t","e">>,
     <<"a","l","t","e","r">>,
     <<"c","r","e","a","t","e">>,
     <<"u","p","d","a","t","e">>,
     <<"i","n","s","e","r","t">>,
     <<"o","u","t","p","u","t","c","s","v">>,
     <<"o","u","t","p","u","t","l","o","o","k","u","p">>,
     <<"s","c","r","i","p","t">>,
     <<"s","e","n","d","e","m","a","i","l">>}

WordSearch == <<"s","e","a","r","c","h">>

\* validate_spl_query, line 94: a pipe first, or two pipes with only white
\* space between them.
InvalidPipeUsage(query) ==
    \/ StartsWith(LStrip(query), KwPipe)
    \/ ContainsSpaced(query, KwPipe, KwPipe)

\* Variant of ValidateSplQuery: the verbs are looked for in the text as written.
ValidateSplQuery_CaseSensitiveVerbs(q) ==
    LET query == Strip(q)
    IN  IF q = <<>> \/ query = <<>>
        THEN Verdict(FALSE, "SPL query cannot be empty")
        ELSE IF ~StartsWith(Lower(query), WordSearch)
        THEN Verdict(FALSE, "SPL query must start with 'search' command")
        ELSE IF Len(query) > MaxSplLength
        THEN Verdict(FALSE, "SPL query too long (max 5000 characters)")
        ELSE IF \E cmd \in DangerousCommands : ContainsWord(query, cmd)
        THEN Verdict(FALSE, "SPL query contains potentially dangerous command")
        ELSE IF InvalidPipeUsage(query)
        THEN Verdict(FALSE, "Invalid pipe usage in SPL query")
        ELSE Verdict(TRUE, "")

\* validate_spl_query, lines 46-97.
ValidateSplQuery(q) ==
    LET query == Strip(q)
    IN  IF q = <<>> \/ query = <<>>
        THEN Verdict(FALSE, "SPL query cannot be empty")
        ELSE IF ~StartsWith(Lower(query), WordSearch)
        THEN Verdict(FALSE, "SPL query must start with 'search' command")
        ELSE IF Len(query) > MaxSplLength
        THEN Verdict(FALSE, "SPL query too long (max 5000 characters)")
        ELSE IF \E cmd \in DangerousCommands : ContainsWord(Lower(query), cmd)
        THEN Verdict(FALSE, "SPL query contains potentially dangerous command")
        ELSE IF InvalidPipeUsage(query)
        THEN Verdict(FALSE, "Invalid pipe usage in SPL query")
        ELSE Verdict(TRUE, "")

\* validate_max_results, lines 99-118, for an integer argument.
ValidateMaxResults(max_results) ==
    IF max_results < 1
    THEN Verdict(FALSE, "max_results must be greater than 0")
    ELSE IF max_results > MaxMaxResults
    THEN Verdict(FALSE, "max_results cannot exceed 10,000")
    ELSE Verdict(TRUE, "")

(***************************************************************************)
(* Query Orchestrator: the operations, step by step.                       *)
(***************************************************************************)
\* execute_spl_query, lines 100-114.
ExecuteSplQuery(q, mr) ==
    /\ op = "idle"
    /\ op' = "spl"
    /\ pc' = "validate"
    /\ splQuery' = q
    /\ maxResults' = mr
    /\ timeout' = DefaultTimeout
    /\ UNCHANGED <<service, cache, question, execQuery, context, splResult, validation,
                   searchResult, response, job, elapsed, calls, fastPath,
                   stream, waitEnd, meta, raised,
                   listing, completion, parseOnly, callers>>

\* execute_spl_query called directly, not through a route.
StartRunSpl(q, mr) == ExecuteSplQuery(q, mr) /\ UNCHANGED http

\* process_natural_language_query, lines 32-38 with _get_splunk_context,
\* lines 178-201 (get_indexes cannot raise, so lines 203-208 are never run).
ProcessNaturalLanguageQuery(q, mr) ==
    /\ op = "idle"
    /\ op' = "nl"
    /\ pc' = "translate"
    /\ question' = q
    /\ maxResults' = mr
    /\ timeout' = DefaultTimeout
    /\ IF CacheHit(cache)
       THEN /\ context' = cache.data
            /\ UNCHANGED <<cache, service, calls, listing>>
       ELSE \E connect_ok \in (IF service = "absent" THEN BOOLEAN ELSE {TRUE}),
               l \in IndexListings :
              LET idx == GetIndexes(service, connect_ok, l)
                  ctx == [indexes |-> idx.value, common_fields |-> CommonFields]
              IN  /\ context' = ctx
                  /\ cache' = [age |-> 0, data |-> ctx]
                  /\ service' = idx.service
                  /\ listing' = idx.listing
                  /\ calls' = Append(calls, Call("get_indexes", <<>>)) \o ConnectAttempt(service)
    /\ UNCHANGED <<splQuery, execQuery, splResult, validation, searchResult,
                   response, job, elapsed, fastPath, stream, waitEnd, meta, raised,
                   completion, parseOnly, callers>>

\* process_natural_language_query called directly, not through a route.
StartRunNL(q, mr) == ProcessNaturalLanguageQuery(q, mr) /\ UNCHANGED http

\* Variant of ShortCircuits: only a reported failure ends the call.
ShortCircuits_OnlyOnFailure(spl_result) == ~Get(spl_result, "success", FALSE)

\* process_natural_language_query, lines 43 and 53: the two tests that end the
\* call before validation.
ShortCircuits(spl_result) ==
    \/ ~Get(spl_result, "success", FALSE)
    \/ Get(spl_result, "spl_query", <<>>) = <<>>

\* process_natural_language_query, lines 44-49 and 54-59.
TranslationFailure(spl_result) ==
    IF ~Get(spl_result, "success", FALSE)
    THEN [success |-> FALSE,
          error |-> "Failed to convert question to SPL",
          details |-> spl_result,
          processing_time |-> "elapsed"]
    ELSE [success |-> FALSE,
          error |-> "No valid SPL query generated",
          spl_result |-> spl_result,
          processing_time |-> "elapsed"]

\* process_natural_language_query, lines 40-59.
Translate ==
    /\ pc = "translate"
    /\ \E c \in CompletionResults :
         LET r == NaturalToSpl(question, c)
         IN  /\ splResult' = r
             /\ calls' = Append(calls, Call("natural_to_spl", <<>>))
             /\ completion' = c
             /\ IF ShortCircuits(r)
                THEN /\ response' = TranslationFailure(r)
                     /\ pc' = "done"
                     /\ UNCHANGED splQuery
                ELSE /\ splQuery' = Get(r, "spl_query", <<>>)
                     /\ pc' = "validate"
                     /\ UNCHANGED response
    /\ UNCHANGED <<service, cache, op, question, maxResults, timeout, execQuery,
                   context, validation, searchResult, job, elapsed, fastPath,
                   stream, waitEnd, meta, raised,
                   listing, parseOnly, http, callers>>

\* process_natural_language_query, lines 61-68 / execute_spl_query, lines 116-120:
\* validate_spl, whose verdict does not decide whether execute_search is called.
ValidateSpl ==
    /\ pc = "validate"
    /\ \E connect_ok \in (IF service = "absent" THEN BOOLEAN ELSE {TRUE}),
          accepted \in BOOLEAN :
         /\ validation' = ValidateSplResult(service, connect_ok, accepted, splQuery)
         /\ parseOnly' = IF ~connect_ok THEN "not_submitted"
                          ELSE IF accepted THEN "accepted" ELSE "rejected"
         /\ service' = IF connect_ok THEN "connected" ELSE service
         /\ calls' = calls \o <<Call("validate_spl", splQuery)>>
                     \o (IF service = "absent" THEN <<Call("connect", <<>>)>> ELSE <<>>)
                     \o (IF connect_ok
                         THEN <<Call("jobs.create parse_only", Strip(splQuery))>>
                         ELSE <<>>)
    /\ pc' = "exec_entry"
    /\ UNCHANGED <<cache, op, question, splQuery, maxResults, timeout, execQuery,
                   context, splResult, searchResult, response, job, elapsed,
                   fastPath, stream, waitEnd, meta, raised,
                   listing, completion, http, callers>>

\* execute_search returns to its caller; the orchestrator compiles its response.
Return ==
    /\ pc = "return"
    /\ pc' = "done"
    /\ response' =
          CASE op = "spl" -> SplResponse(splQuery, searchResult, validation)
            [] op = "nl" -> NLResponse(question, splQuery, splResult, searchResult,
                                       validation)
            [] OTHER -> response
    /\ UNCHANGED <<service, cache, op, question, splQuery, maxResults, timeout,
                   execQuery, context, splResult, validation, searchResult, job,
                   elapsed, calls, fastPath, stream, waitEnd, meta, raised,
                   listing, completion, parseOnly, http, callers>>

\* The operation has returned; the next one may start.
Finish ==
    /\ pc = "done"
    /\ http # None => http.status # 0
    /\ op' = "idle"
    /\ pc' = "idle"
    /\ question' = <<>>
    /\ splQuery' = <<>>
    /\ maxResults' = 0
    /\ timeout' = 0
    /\ execQuery' = <<>>
    /\ context' = None
    /\ splResult' = None
    /\ validation' = None
    /\ searchResult' = None
    /\ response' = None
    /\ job' = None
    /\ elapsed' = 0
    /\ calls' = <<>>
    /\ fastPath' = "not_attempted"
    /\ stream' = None
    /\ waitEnd' = "none"
    /\ meta' = None
    /\ raised' = ""
    /\ listing' = None
    /\ completion' = None
    /\ parseOnly' = "none"
    /\ http' = None
    /\ UNCHANGED <<service, cache, callers>>

\* Time passes between operations; only age < TTL is ever tested, so the age
\* stops at the TTL.
TimePasses ==
    /\ op = "idle"
    /\ cache # None
    /\ cache.age < TtlTicks
    /\ \E d \in {TtlTicks - 1, TtlTicks} :
         cache' = [cache EXCEPT !.age = IF @ + d > TtlTicks THEN TtlTicks ELSE @ + d]
    /\ UNCHANGED <<service, op, pc, question, splQuery, maxResults, timeout,
                   execQuery, context, splResult, validation, searchResult,
                   response, job, elapsed, calls, fastPath, stream, waitEnd,
                   meta, raised,
                   listing, completion, parseOnly, http, callers>>

\* get_query_suggestions, lines 146-176.
SuggestQuestions(partial_question) ==
    /\ op = "idle"
    /\ op' = "suggest"
    /\ pc' = "done"
    /\ question' = partial_question
    /\ response' = [value |-> GetQuerySuggestions(partial_question)]
    /\ UNCHANGED <<service, cache, splQuery, maxResults, timeout, execQuery,
                   context, splResult, validation, searchResult, job, elapsed,
                   calls, fastPath, stream, waitEnd, meta, raised, listing,
                   completion, parseOnly, http, callers>>

\* get_health_status, lines 210-246.
GetHealth ==
    /\ op = "idle"
    /\ op' = "health"
    /\ pc' = "done"
    /\ \E connect_ok \in (IF service = "absent" THEN BOOLEAN ELSE {TRUE}),
          l \in IndexListings, key_read \in ApiKeyReads :
         LET idx == GetIndexes(service, connect_ok, l)
         IN  /\ service' = idx.service
             /\ listing' = idx.listing
             /\ calls' = Append(calls, Call("get_indexes", <<>>)) \o ConnectAttempt(service)
             /\ response' = GetHealthStatus(idx.value, key_read)
    /\ UNCHANGED <<cache, question, splQuery, maxResults, timeout, execQuery,
                   context, splResult, validation, searchResult, job, elapsed,
                   fastPath, stream, waitEnd, meta, raised, completion, parseOnly, http, callers>>

\* get_indexes called by a direct caller (lines 212-227).
ListIndexes ==
    /\ op = "idle"
    /\ op' = "indexes"
    /\ pc' = "done"
    /\ \E connect_ok \in (IF service = "absent" THEN BOOLEAN ELSE {TRUE}),
          l \in IndexListings :
         LET idx == GetIndexes(service, connect_ok, l)
         IN  /\ service' = idx.service
             /\ listing' = idx.listing
             /\ calls' = Append(calls, Call("get_indexes", <<>>)) \o ConnectAttempt(service)
             /\ response' = [value |-> idx.value]
    /\ UNCHANGED <<cache, question, splQuery, maxResults, timeout, execQuery,
                   context, splResult, validation, searchResult, job, elapsed,
                   fastPath, stream, waitEnd, meta, raised, completion, parseOnly, http, callers>>

\* get_search_history called by a direct caller (lines 253-273); count is
\* handed to service.jobs.list, which decides how many jobs it lists.
ListRecentJobs ==
    /\ op = "idle"
    /\ op' = "history"
    /\ pc' = "done"
    /\ \E connect_ok \in (IF service = "absent" THEN BOOLEAN ELSE {TRUE}),
          l \in JobListings :
         LET h == GetSearchHistory(service, connect_ok, l)
         IN  /\ service' = h.service
             /\ listing' = h.listing
             /\ calls' = Append(calls, Call("get_search_history", <<>>)) \o ConnectAttempt(service)
             /\ response' = [value |-> h.value]
    /\ UNCHANGED <<cache, question, splQuery, maxResults, timeout, execQuery,
                   context, splResult, validation, searchResult, job, elapsed,
                   fastPath, stream, waitEnd, meta, raised, completion, parseOnly, http, callers>>

\* enhance_spl_query called through the orchestrator's gateway (lines 150-207);
\* feedback only enters the text of the request.
EnhanceQueryCall(q) ==
    /\ op = "idle"
    /\ op' = "enhance"
    /\ pc' = "done"
    /\ splQuery' = q
    /\ \E c \in CompletionResults :
         /\ completion' = c
         /\ response' = EnhanceSplQuery(q, c)
    /\ calls' = Append(calls, Call("enhance_spl_query", q))
    /\ UNCHANGED <<service, cache, question, maxResults, timeout, execQuery,
                   context, splResult, validation, searchResult, job, elapsed,
                   fastPath, stream, waitEnd, meta, raised, listing, parseOnly, callers>>

\* enhance_spl_query called directly, not through a route.
Enhance(q) == EnhanceQueryCall(q) /\ UNCHANGED http

(***************************************************************************)
(* HTTP routes (src/src/api/routes/query.py) with their request and        *)
(* response models (src/src/api/models/request_models.py).                 *)
(***************************************************************************)

\* What a client may post.
HttpQuestions ==
    {<<>>, <<" "," ","a","b","c"," "," ">>, <<"E","v","a","l"," ","(","x",")">>,
     QuestionErrors}
HttpQueries ==
    {QIdx, QPipeTop, QDelete, QPadded,
     <<"s","e","a","r","c","h"," ","x"," ","|"," ","|"," ","y">>}
HttpMaxResults == {0} \cup MaxResultsInputs

MinSplLength == 5

\* NaturalLanguageQueryRequest, lines 6-17: the parsed request, or None when
\* the model refuses the body (the framework then answers 422 itself).
NaturalLanguageQueryRequest(q, mr) ==
    IF /\ Len(q) >= MinQuestionLength
       /\ Len(q) <= MaxQuestionLength
       /\ mr >= 1
       /\ mr <= MaxMaxResults
       /\ Strip(q) # <<>>
    THEN [question |-> Strip(q), max_results |-> mr]
    ELSE None

\* SPLQueryRequest, lines 19-30.
SPLQueryRequest(q, mr) ==
    IF /\ Len(q) >= MinSplLength
       /\ Len(q) <= MaxSplLength
       /\ mr >= 1
       /\ mr <= MaxMaxResults
       /\ Strip(q) # <<>>
    THEN [spl_query |-> Strip(q), max_results |-> mr]
    ELSE None

\* QueryEnhancementRequest, lines 32-43, posted with an acceptable feedback.
QueryEnhancementRequest(q) ==
    IF Len(q) >= MinSplLength /\ Len(q) <= MaxSplLength /\ Strip(q) # <<>>
    THEN [spl_query |-> Strip(q)]
    ELSE None

\* Variant of RouteRejects: only the SPL text is validated.
RouteRejects_SplOnly(route, request) ==
    route \in {"spl", "enhance"} /\ ~ValidateSplQuery(request.spl_query).valid

\* query.py, lines 55-61, 103-109 and 151-153: the validations that end the
\* request with HTTPException(status_code=400).
RouteRejects(route, request) ==
    CASE route = "natural" ->
           \/ ~ValidateNaturalLanguageQuestion(request.question).valid
           \/ ~ValidateMaxResults(request.max_results).valid
      [] route = "spl" ->
           \/ ~ValidateSplQuery(request.spl_query).valid
           \/ ~ValidateMaxResults(request.max_results).valid
      [] route = "enhance" -> ~ValidateSplQuery(request.spl_query).valid

\* The request is answered before the handler's processing starts.
Answered(route, request, status) ==
    /\ op' = "http"
    /\ pc' = "done"
    /\ http' = [route |-> route, request |-> request, status |-> status]
    /\ UNCHANGED <<service, cache, question, splQuery, maxResults, timeout,
                   execQuery, context, splResult, validation, searchResult,
                   response, job, elapsed, calls, fastPath, stream, waitEnd,
                   meta, raised, listing, completion, parseOnly, callers>>

Pending(route, request) == [route |-> route, request |-> request, status |-> 0]

\* query_natural_language, lines 42-68.
QueryNaturalLanguage(q, mr) ==
    /\ op = "idle"
    /\ LET request == NaturalLanguageQueryRequest(q, mr)
       IN  IF request = None
           THEN Answered("natural", request, 422)
           ELSE IF RouteRejects("natural", request)
           THEN Answered("natural", request, 400)
           ELSE /\ ProcessNaturalLanguageQuery(request.question, request.max_results)
                /\ http' = Pending("natural", request)

\* query_spl, lines 90-116.
QuerySpl(q, mr) ==
    /\ op = "idle"
    /\ LET request == SPLQueryRequest(q, mr)
       IN  IF request = None
           THEN Answered("spl", request, 422)
           ELSE IF RouteRejects("spl", request)
           THEN Answered("spl", request, 400)
           ELSE /\ ExecuteSplQuery(request.spl_query, request.max_results)
                /\ http' = Pending("spl", request)

\* enhance_query, lines 138-160.
EnhanceQuery(q) ==
    /\ op = "idle"
    /\ LET request == QueryEnhancementRequest(q)
       IN  IF request = None
           THEN Answered("enhance", request, 422)
           ELSE IF RouteRejects("enhance", request)
           THEN Answered("enhance", request, 400)
           ELSE /\ EnhanceQueryCall(request.spl_query)
                /\ http' = Pending("enhance", request)

\* QueryStatistics, lines 60-66: result_count has no default.
QueryStatisticsAccepts(d) == "result_count" \in DOMAIN d

\* SPLValidationResponse, lines 53-58: valid and query have no default.
SPLValidationResponseAccepts(d) == {"valid", "query"} \subseteq DOMAIN d

\* NaturalLanguageQueryResponse(**result), lines 68-81: a missing statistics
\* or validation is built by its default_factory from no fields at all.
NaturalLanguageQueryResponseAccepts(result) ==
    /\ {"success", "question"} \subseteq DOMAIN result
    /\ QueryStatisticsAccepts(Get(result, "statistics", EmptyDict))
    /\ SPLValidationResponseAccepts(Get(result, "validation", EmptyDict))

\* SPLQueryResponse(**result), lines 83-93.
SPLQueryResponseAccepts(result) ==
    /\ {"success", "spl_query"} \subseteq DOMAIN result
    /\ QueryStatisticsAccepts(Get(result, "statistics", EmptyDict))
    /\ SPLValidationResponseAccepts(Get(result, "validation", EmptyDict))

\* QueryEnhancementResponse(**result), lines 95-103.
QueryEnhancementResponseAccepts(result) ==
    {"success", "original_query"} \subseteq DOMAIN result

ResponseModelAccepts(route, result) ==
    CASE route = "natural" -> NaturalLanguageQueryResponseAccepts(result)
      [] route = "spl" -> SPLQueryResponseAccepts(result)
      [] route = "enhance" -> QueryEnhancementResponseAccepts(result)

\* query.py, lines 70-88, 118-136 and 162-180: the result is converted to the
\* response model; a conversion that raises is answered with status 500.
Respond ==
    /\ pc = "done"
    /\ http # None
    /\ http.status = 0
    /\ http' = [http EXCEPT !.status =
                   IF ResponseModelAccepts(http.route, response) THEN 200 ELSE 500]
    /\ UNCHANGED <<service, cache, op, pc, question, splQuery, maxResults, timeout,
                   execQuery, context, splResult, validation, searchResult,
                   response, job, elapsed, calls, fastPath, stream, waitEnd,
                   meta, raised, listing, completion, parseOnly, callers>>

Next ==
    \/ \E q \in Queries, mr \in MaxResultsInputs,
          to \in {OneshotMinTimeout - 1, OneshotMinTimeout} :
         StartExecuteSearch(q, mr, to)
    \/ \E q \in Queries, mr \in MaxResultsInputs : StartRunSpl(q, mr)
    \/ \E q \in {QuestionErrors}, mr \in MaxResultsInputs : StartRunNL(q, mr)
    \/ ExecuteSearchEntry
    \/ ExecuteOneshotStep
    \/ CreateJob
    \/ PollJob
    \/ JobInfo
    \/ Translate
    \/ ValidateSpl
    \/ Return
    \/ Finish
    \/ TimePasses
    \/ \E p \in Partials : SuggestQuestions(p)
    \/ GetHealth
    \/ ListIndexes
    \/ ListRecentJobs
    \/ \E q \in Queries : Enhance(q)

Spec == Init /\ [][Next]_vars

\* The service as its HTTP clients drive it: every operation starts in a route.
NextHttp ==
    \/ \E q \in HttpQuestions, mr \in HttpMaxResults : QueryNaturalLanguage(q, mr)
    \/ \E q \in HttpQueries, mr \in HttpMaxResults : QuerySpl(q, mr)
    \/ \E q \in HttpQueries : EnhanceQuery(q)
    \/ ExecuteSearchEntry
    \/ ExecuteOneshotStep
    \/ CreateJob
    \/ PollJob
    \/ JobInfo
    \/ Translate
    \/ ValidateSpl
    \/ Return
    \/ Respond
    \/ Finish
    \/ TimePasses

SpecHttp == Init /\ [][NextHttp]_vars

\* The handle is absent when the first operation starts: the state the guards
\* at lines 53, 215, 232 and 256 of splunk_client.py provide for (service is
\* None, as line 18 leaves it, until a _connect succeeds; a client built with
\* _connect replaced, as tests/test_splunk_client.py builds it, is in it).
InitAbsentHandle ==
    /\ service = "absent"
    /\ cache = None
    /\ op = "idle"
    /\ pc = "idle"
    /\ question = <<>>
    /\ splQuery = <<>>
    /\ maxResults = 0
    /\ timeout = 0
    /\ execQuery = <<>>
    /\ context = None
    /\ splResult = None
    /\ validation = None
    /\ searchResult = None
    /\ response = None
    /\ job = None
    /\ elapsed = 0
    /\ calls = <<>>
    /\ fastPath = "not_attempted"
    /\ stream = None
    /\ waitEnd = "none"
    /\ meta = None
    /\ raised = ""
    /\ listing = None
    /\ completion = None
    /\ parseOnly = "none"
    /\ http = None
    /\ callers = None

SpecAbsentHandle == InitAbsentHandle /\ [][Next]_vars

(***************************************************************************)
(* validate_spl_query applied to texts put together from a few pieces,     *)
(* to each denylisted verb, and to texts at the length limit.              *)
(***************************************************************************)
MaxPieces == 5

Pieces == {WordSearch, <<" ">>, KwPipe, <<"D","e","L","e","t","e">>, <<"x">>}

RECURSIVE Flatten(_)
Flatten(ps) == IF ps = <<>> THEN <<>> ELSE Head(ps) \o Flatten(Tail(ps))

\* 'search' followed by x's, n characters in all.
LongQuery(n) == [i \in 1..n |-> IF i <= Len(WordSearch) THEN WordSearch[i] ELSE "x"]

SplTexts ==
    {Flatten(ps) : ps \in SeqsUpTo(Pieces, MaxPieces)}
    \cup {KwSearch \o cmd : cmd \in DangerousCommands}
    \cup {LongQuery(MaxSplLength), <<" ">> \o LongQuery(MaxSplLength),
          LongQuery(MaxSplLength + 1)}

InitValidator ==
    /\ service = "connected"
    /\ cache = None
    /\ op = "idle"
    /\ pc = "idle"
    /\ question = <<>>
    /\ splQuery \in SplTexts
    /\ maxResults = 0
    /\ timeout = 0
    /\ execQuery = <<>>
    /\ context = None
    /\ splResult = None
    /\ validation = None
    /\ searchResult = None
    /\ response = None
    /\ job = None
    /\ elapsed = 0
    /\ calls = <<>>
    /\ fastPath = "not_attempted"
    /\ stream = None
    /\ waitEnd = "none"
    /\ meta = None
    /\ raised = ""
    /\ listing = None
    /\ completion = None
    /\ parseOnly = "none"
    /\ http = None
    /\ callers = None

\* validate_spl_query(query) is called and returns.
CheckSplQuery ==
    /\ op = "idle"
    /\ op' = "validate_spl_query"
    /\ pc' = "done"
    /\ response' = ValidateSplQuery(splQuery)
    /\ UNCHANGED <<service, cache, question, splQuery, maxResults, timeout,
                   execQuery, context, splResult, validation, searchResult, job,
                   elapsed, calls, fastPath, stream, waitEnd, meta, raised,
                   listing, completion, parseOnly, http, callers>>

SpecValidator == InitValidator /\ [][CheckSplQuery]_vars

(***************************************************************************)
(* execute_search called directly with a wider choice of query texts.      *)
(***************************************************************************)

ExecutorTexts ==
    {<<>>, <<" ">>, WordSearch, KwSearch, QIdx, QPadded, QPipeTop, KwTstats \o <<"x">>}

NextExecutor ==
    \/ \E q \in ExecutorTexts :
         StartExecuteSearch(q, OneshotMaxResults, OneshotMinTimeout)
    \/ ExecuteSearchEntry
    \/ ExecuteOneshotStep
    \/ CreateJob
    \/ PollJob
    \/ JobInfo
    \/ Return
    \/ Finish

SpecExecutor == Init /\ [][NextExecutor]_vars

\* execute_search runs on its caller's thread: once called, each of its steps
\* is taken (every backend call returns or raises, every sleep ends).
SpecExecutorFair ==
    /\ Init
    /\ [][NextExecutor]_vars
    /\ WF_vars(ExecuteSearchEntry)
    /\ WF_vars(ExecuteOneshotStep)
    /\ WF_vars(CreateJob)
    /\ WF_vars(PollJob)
    /\ WF_vars(JobInfo)
    /\ WF_vars(Return)

(***************************************************************************)
(* _get_splunk_context (query_processor.py, lines 178-201) run by several  *)
(* callers that share one QueryProcessor, without any lock.  The slot is   *)
(* the pair (time stored, context); "fetched" accompanies a context as a   *)
(* history value: the time since get_indexes produced its index list.      *)
(***************************************************************************)
MaxLatencyTicks == 2

Callers == {"a", "b"}

\* Ages are only compared with the TTL: they stop growing beyond it.
AgeCap == TtlTicks + MaxLatencyTicks + 1
Older(age, d) == IF age + d > AgeCap THEN AgeCap ELSE age + d

NotCalling == [pc |-> "idle", context |-> None, fetched |-> 0]

InitContextRace ==
    /\ service = "connected"
    /\ cache = None
    /\ op = "idle"
    /\ pc = "idle"
    /\ question = <<>>
    /\ splQuery = <<>>
    /\ maxResults = 0
    /\ timeout = 0
    /\ execQuery = <<>>
    /\ context = None
    /\ splResult = None
    /\ validation = None
    /\ searchResult = None
    /\ response = None
    /\ job = None
    /\ elapsed = 0
    /\ calls = <<>>
    /\ fastPath = "not_attempted"
    /\ stream = None
    /\ waitEnd = "none"
    /\ meta = None
    /\ raised = ""
    /\ listing = None
    /\ completion = None
    /\ parseOnly = "none"
    /\ http = None
    /\ callers = [t \in Callers |-> NotCalling]

OnlyContextState ==
    UNCHANGED <<service, op, pc, question, splQuery, maxResults, timeout,
                execQuery, context, splResult, validation, searchResult,
                response, job, elapsed, calls, fastPath, stream, waitEnd, meta,
                raised, listing, completion, parseOnly, http>>

\* Lines 183-186: the slot is read; a fresh entry is returned at once.
CheckCache(t) ==
    /\ callers[t].pc = "idle"
    /\ callers' = [callers EXCEPT ![t] =
                      IF CacheHit(cache)
                      THEN [pc |-> "done", context |-> cache.data,
                            fetched |-> cache.fetched]
                      ELSE [pc |-> "fetch", context |-> None, fetched |-> 0]]
    /\ UNCHANGED cache
    /\ OnlyContextState

\* Lines 189-196: get_indexes answers and the context is built.
FetchContext(t) ==
    /\ callers[t].pc = "fetch"
    /\ \E l \in IndexListings :
         callers' = [callers EXCEPT ![t] =
                        [pc |-> "store",
                         context |-> [indexes |-> GetIndexes(service, TRUE, l).value,
                                      common_fields |-> CommonFields],
                         fetched |-> 0]]
    /\ UNCHANGED cache
    /\ OnlyContextState

\* Lines 199-201: the slot is written with the time of writing, and the
\* context is returned.
StoreContext(t) ==
    /\ callers[t].pc = "store"
    /\ cache' = [age |-> 0, data |-> callers[t].context,
                 fetched |-> callers[t].fetched]
    /\ callers' = [callers EXCEPT ![t].pc = "done"]
    /\ OnlyContextState

\* The caller has its context; it may call again.
LeaveContext(t) ==
    /\ callers[t].pc = "done"
    /\ callers' = [callers EXCEPT ![t] = NotCalling]
    /\ UNCHANGED cache
    /\ OnlyContextState

\* Time passes by d ticks for the slot and for every context not yet
\* written; a returned context keeps the age it had when it was returned.
Ages(d) ==
    /\ cache' = IF cache = None THEN None
                ELSE [cache EXCEPT !.age = Older(@, d), !.fetched = Older(@, d)]
    /\ callers' = [t \in Callers |->
                      IF callers[t].pc # "store" THEN callers[t]
                      ELSE [callers[t] EXCEPT !.fetched = Older(@, d)]]
    /\ OnlyContextState

\* One tick passes while a caller is between get_indexes and the write of
\* the slot (the answer travels, the thread waits for its turn).
Latency ==
    /\ \E t \in Callers : callers[t].pc = "store"
    /\ \A t \in Callers :
          callers[t].pc = "store" => callers[t].fetched < MaxLatencyTicks
    /\ Ages(1)

\* A long time passes while no caller is between get_indexes and the write.
Wait ==
    /\ \A t \in Callers : callers[t].pc # "store"
    /\ cache # None
    /\ cache.age < TtlTicks
    /\ \E d \in {TtlTicks - 1, TtlTicks} : Ages(d)

NextContextRace ==
    \/ \E t \in Callers : CheckCache(t)
    \/ \E t \in Callers : FetchContext(t)
    \/ \E t \in Callers : StoreContext(t)
    \/ \E t \in Callers : LeaveContext(t)
    \/ Latency
    \/ Wait

SpecContextRace == InitContextRace /\ [][NextContextRace]_vars

(***************************************************************************)
(* Properties.                                                             *)
(***************************************************************************)
Count(name) == Cardinality({i \in DOMAIN calls : calls[i].call = name})
Position(name) == CHOOSE i \in DOMAIN calls : calls[i].call = name

\* execute_search has handed an outcome back to its caller.
SearchReturned == pc \in {"return", "done"} /\ searchResult # None

\* The wait loop was left on completion and the metadata was read and converted.
JobCompletedNormally ==
    /\ waitEnd = "done"
    /\ meta # None
    /\ \A k \in DOMAIN meta : meta[k].kind # "bad"

\* The number a metadata text stands for (0 when the key is absent).
Reported(raw) == IF raw.kind = "num" THEN raw.n ELSE 0

\* C1: whenever the fast path raised, the job path was attempted in the same
\* call, and if that job completed normally the outcome is success = true with
\* results = [] and the statistics of the job.
C1_FallbackAfterOneshotFailure ==
    (pc \in {"return", "done"} /\ fastPath = "raised") =>
        /\ Count("jobs.create") = 1
        /\ Position("jobs.oneshot") < Position("jobs.create")
        /\ JobCompletedNormally =>
              /\ searchResult # None
              /\ searchResult.success = TRUE
              /\ searchResult.results = <<>>
              /\ searchResult.statistics.result_count = Reported(meta.resultCount)
              /\ searchResult.statistics.search_id = job.sid

C1_Witness ==
    /\ pc = "done"
    /\ fastPath = "raised"
    /\ JobCompletedNormally
    /\ searchResult.success = TRUE
    /\ searchResult.results = <<>>
    /\ searchResult.statistics.result_count > 0

\* C2: when a check of the wait loop finds the deadline passed (elapsed >
\* timeout) and the job does not report completion, that step attempts one
\* cancel and the call returns success = false with the timeout message; a
\* failing cancel changes nothing of that outcome and nothing is raised.
C2_TimeoutCancelsAndFails ==
    [][(pc = "poll" /\ elapsed > timeout * 2
          /\ waitEnd' \notin {"done", "is_done_failed"})
        => /\ pc' = "return"
           /\ raised' = ""
           /\ searchResult'.success = FALSE
           /\ searchResult'.error = TimeoutMessage
           /\ "results" \notin DOMAIN searchResult'
           /\ Len(calls') = Len(calls) + 1
           /\ calls'[Len(calls')].call \in {"job.cancel", "job.cancel failed"}]_vars

C2_Witness ==
    /\ pc = "return"
    /\ waitEnd = "timeout"
    /\ calls[Len(calls)].call = "job.cancel failed"
    /\ searchResult.success = FALSE
    /\ searchResult.error = TimeoutMessage

\* C3: the oneshot is submitted iff max_results <= 100 and timeout >= 30; a
\* job is created iff the fast path was not attempted or raised; a call
\* submits at most one oneshot and creates at most one job.
C3_StrategySelection ==
    /\ Count("jobs.oneshot") <= 1
    /\ Count("jobs.create") <= 1
    /\ Count("jobs.oneshot") = 1 => (maxResults <= 100 /\ timeout >= 30)
    /\ (pc = "job_create" /\ fastPath = "not_attempted") =>
          (maxResults > 100 \/ timeout < 30)
    /\ SearchReturned =>
          /\ Count("jobs.oneshot") = 1 <=> (maxResults <= 100 /\ timeout >= 30)
          /\ Count("jobs.create") = 1 <=> fastPath \in {"not_attempted", "raised"}
          /\ fastPath = "not_attempted" <=> Count("jobs.oneshot") = 0

C3_Witness ==
    /\ pc = "done"
    /\ op = "exec"
    /\ maxResults = 100
    /\ timeout = 30
    /\ fastPath = "returned"
    /\ Count("jobs.oneshot") = 1
    /\ Count("jobs.create") = 0

\* The stream could not be read or parsed: read() raised, or the body is
\* neither JSON nor readable by the record reader.
ParseFailed ==
    stream # None /\ stream.fmt \in {"read_error", "garbage", "raw_garbage"}

\* C4 as stated: every exception inside the fast path, a failure to parse the
\* response body included, makes the call fall through to the job path instead
\* of ending with the fast path's own outcome.
C4_AnyFastPathExceptionFallsThrough ==
    (pc \in {"return", "done"} /\ (fastPath = "raised" \/ ParseFailed)) =>
        /\ Count("jobs.create") = 1
        /\ searchResult # None =>
              Get(Get(searchResult, "statistics", EmptyDict), "search_id", "") # "oneshot"

\* C4 amended: an exception of the oneshot submission (or of taking the length
\* of the parsed results) makes the call fall through to the job path; a
\* failure to read or parse the body is swallowed inside the fast path, which
\* returns success = true with results = [] and result_count = 0, and no job
\* is created.
C4_SubmissionFailureFallsThrough ==
    pc \in {"return", "done"} =>
        /\ fastPath = "raised" =>
              /\ Count("jobs.create") = 1
              /\ searchResult # None =>
                    Get(Get(searchResult, "statistics", EmptyDict), "search_id", "")
                       # "oneshot"
        /\ ParseFailed =>
              /\ fastPath = "returned"
              /\ Count("jobs.create") = 0
              /\ searchResult.success = TRUE
              /\ searchResult.results = <<>>
              /\ searchResult.statistics.result_count = 0
              /\ searchResult.statistics.search_id = "oneshot"

C4_Witness ==
    /\ pc = "done"
    /\ stream # None
    /\ stream.fmt = "garbage"
    /\ searchResult.success = TRUE
    /\ searchResult.results = <<>>
    /\ Count("jobs.create") = 0

\* C5: every outcome execute_search returns: success = false carries no
\* results and has an error; success = true from the fast path has
\* statistics.result_count = len(results).
C5_OutcomeInvariant ==
    searchResult # None =>
        /\ searchResult.success = FALSE =>
              /\ Get(searchResult, "results", <<>>) = <<>>
              /\ "error" \in DOMAIN searchResult
        /\ (searchResult.success = TRUE /\ fastPath = "returned") =>
              searchResult.statistics.result_count = Len(searchResult.results)

C5_Witness ==
    /\ searchResult # None
    /\ searchResult.success = TRUE
    /\ fastPath = "returned"
    /\ Len(searchResult.results) = MaxRecords
    /\ searchResult.statistics.result_count = MaxRecords

\* C6: every successful outcome of the job path has results = [] while
\* result_count, scan_count, run_duration and search_id are the values the
\* job reported.
C6_JobOutcomeFromMetadata ==
    (searchResult # None /\ searchResult.success = TRUE /\ fastPath # "returned") =>
        /\ searchResult.results = <<>>
        /\ meta # None
        /\ searchResult.statistics.result_count = Reported(meta.resultCount)
        /\ searchResult.statistics.scan_count = Reported(meta.scanCount)
        /\ searchResult.statistics.run_duration = Reported(meta.runDuration)
        /\ searchResult.statistics.search_id = job.sid

C6_Witness ==
    /\ searchResult # None
    /\ searchResult.success = TRUE
    /\ fastPath = "not_attempted"
    /\ searchResult.results = <<>>
    /\ searchResult.statistics.result_count = MaxCount
    /\ searchResult.statistics.scan_count = 0

\* A response compiled after the search step of execute_spl_query or
\* process_natural_language_query.
Compiled == pc = "done" /\ op \in {"spl", "nl"} /\ searchResult # None

\* C7: in every response compiled after the search step, result_count is the
\* length of the response's results and success is the outcome's success.
C7_ResponseCountsResults ==
    Compiled =>
        /\ response.result_count = Len(response.results)
        /\ response.success = searchResult.success
        /\ response.results = Get(searchResult, "results", <<>>)

C7_Witness ==
    /\ Compiled
    /\ response.success = TRUE
    /\ response.result_count = 0
    /\ response.statistics.result_count > 0

\* C8: natural-language operation with max_results <= 100: when translation
\* succeeded with a non-empty query q and the fast path returned n records,
\* the response has success = true, result_count = n, those records in order
\* as results, and spl_query = q.
C8_EndToEnd ==
    (/\ Compiled
     /\ op = "nl"
     /\ maxResults <= 100
     /\ splResult.success = TRUE
     /\ splResult.spl_query # <<>>
     /\ fastPath = "returned"
     /\ ~ParseFailed) =>
        LET records == SelectSeq(stream.items, LAMBDA x : x \in Events)
        IN  /\ response.success = TRUE
            /\ response.result_count = Len(records)
            /\ response.results = records
            /\ response.spl_query = splResult.spl_query
            /\ "error" \notin DOMAIN response

C8_Witness ==
    /\ Compiled
    /\ op = "nl"
    /\ maxResults <= 100
    /\ fastPath = "returned"
    /\ response.success = TRUE
    /\ splResult.confidence = <<"h","i","g","h">>
    /\ response.result_count = 3
    /\ response.results = <<"event1", "event2", "event1">>
    /\ response.spl_query = QSearchIdx

C10_ValidationAdvisory ==
    /\ (op = "nl" /\ Count("execute_search") > 0) =>
          /\ Count("validate_spl") = 1
          /\ Position("validate_spl") < Position("execute_search")
    /\ (pc = "done" /\ op = "nl" /\ validation # None /\ validation.valid = FALSE) =>
          /\ Count("execute_search") = 1
          /\ calls[Position("execute_search")].query = splQuery
          /\ validation.query = splQuery
          /\ splQuery = splResult.spl_query
          /\ searchResult # None
          /\ response.success = searchResult.success
          /\ response.validation = validation

C10_Witness ==
    /\ pc = "done"
    /\ op = "nl"
    /\ validation # None
    /\ validation.valid = FALSE
    /\ response.success = TRUE
    /\ response.validation.valid = FALSE

\* The translation gave nothing to run: it reported failure or an empty query.
NothingToRun ==
    /\ op = "nl"
    /\ splResult # None
    /\ (~Get(splResult, "success", FALSE) \/ Get(splResult, "spl_query", <<>>) = <<>>)

BackendSearchCalls ==
    {"validate_spl", "jobs.create parse_only", "execute_search", "jobs.oneshot",
     "jobs.create"}

\* C11: when the translation reports failure or returns an empty query, the
\* call ends there: no validation and no search call is made in that call, and
\* the response is success = false with an error and a processing_time.
C11_ShortCircuit ==
    NothingToRun =>
        /\ pc = "done"
        /\ \A i \in DOMAIN calls : calls[i].call \notin BackendSearchCalls
        /\ validation = None
        /\ searchResult = None
        /\ response.success = FALSE
        /\ {"error", "processing_time"} \subseteq DOMAIN response

C11_Witness ==
    /\ NothingToRun
    /\ pc = "done"
    /\ splResult.success = TRUE
    /\ response.error = "No valid SPL query generated"
    /\ Count("natural_to_spl") = 1

OrchestratorOps == {"nl", "spl", "suggest", "health"}

\* C12: runNaturalLanguage, runSpl, suggestQuestions and getHealth always
\* return a value and never raise, whatever the gateway and the backend do and
\* also when the handle is absent and cannot be re-established; a response of
\* runNaturalLanguage or runSpl is a success only if the search succeeded, and
\* otherwise has success = false and an error.
C12_OrchestratorTotal ==
    /\ op \in OrchestratorOps => raised = ""
    /\ (op \in OrchestratorOps /\ pc = "done") => response # None
    /\ (op \in {"nl", "spl"} /\ pc = "done") =>
          /\ "success" \in DOMAIN response
          /\ response.success \in BOOLEAN
          /\ response.success =>
                (searchResult # None /\ Get(searchResult, "success", FALSE))
          /\ ~response.success => "error" \in DOMAIN response

C12_Witness ==
    /\ op = "spl"
    /\ pc = "done"
    /\ service = "absent"
    /\ Count("connect") = 2
    /\ searchResult = None
    /\ raised = ""
    /\ response.success = FALSE
    /\ response.error = "Connection failed"

\* C13: with an entry in the cache, a call of _get_splunk_context made less
\* than 300 s after the fetch returns the cached context and does not call
\* get_indexes; a call made once 300 s have passed calls get_indexes again and
\* stores the new context with a new timestamp.
C13_ContextCacheTtl ==
    [][(op = "idle" /\ op' = "nl" /\ cache # None) =>
          IF cache.age < ContextCacheTtl * TicksPerSecond
          THEN /\ context' = cache.data
               /\ cache' = cache
               /\ calls' = <<>>
          ELSE /\ calls' = <<Call("get_indexes", <<>>)>>
               /\ cache'.age = 0
               /\ cache'.data = context'
               /\ context'.indexes \in {DefaultIndexes} \cup
                      {SortNames(l.names) : l \in {x \in IndexListings : x.ok}}]_vars

C13_Witness ==
    /\ op = "nl"
    /\ cache # None
    /\ cache.age = ContextCacheTtl * TicksPerSecond - 1
    /\ context = cache.data
    /\ Count("get_indexes") = 0

\* The index listing of this call failed: the connection attempt or
\* service.indexes raised inside get_indexes.
ListingFailed(l) == l # None /\ ~l.ok

\* C14: when the index listing fails during _get_splunk_context, the call
\* returns the minimal context whose indexes are exactly main and _internal,
\* does not raise, and leaves the cache as it was.
C14_FailedListingNotCached ==
    [][(op = "idle" /\ op' = "nl" /\ ListingFailed(listing')) =>
          /\ context' = MinimalContext
          /\ cache' = cache
          /\ raised' = ""]_vars

\* C15: the overall status of get_health_status is "degraded" exactly when the
\* index listing failed (search component "error") or the gateway holds no
\* non-empty credential (component "not_configured" or "error"), otherwise
\* "healthy", and never "error"; a failed listing is reported as component
\* status "error".
C15_HealthReflectsBackend ==
    (op = "health" /\ pc = "done") =>
        /\ response.overall_status \in {"healthy", "degraded"}
        /\ response.overall_status = "degraded" <=>
              \/ ListingFailed(listing)
              \/ response.openai.status \in {"not_configured", "error"}
        /\ ListingFailed(listing) <=> response.splunk.status = "error"

\* C16: execute_search never raises to its caller: whatever fails from the
\* start of the call on, re-establishing an absent connection included, the
\* caller receives an outcome, and a failing outcome has success = false, an
\* error and the query.
C16_ExecuteSearchNeverRaises ==
    /\ op = "exec" => raised = ""
    /\ (pc = "done" /\ Count("execute_search") = 1) =>
          /\ searchResult # None
          /\ "success" \in DOMAIN searchResult
          /\ ~searchResult.success => {"error", "query"} \subseteq DOMAIN searchResult

\* The names of a list are in the order sorted() gives.
InIndexOrder(names) ==
    \A i, j \in DOMAIN names :
        i < j => \E a, b \in DOMAIN IndexOrder :
                    a < b /\ IndexOrder[a] = names[i] /\ IndexOrder[b] = names[j]

\* C17: get_indexes and get_search_history never raise.  On success
\* get_indexes returns the backend's index names sorted and get_search_history
\* one entry per listed job; on any failure (a failed connection attempt, a
\* failed listing, one entry that cannot be converted) get_indexes returns the
\* fixed default list and get_search_history the empty list, never a part.
C17_ListingsNeverRaise ==
    /\ (op = "indexes" /\ pc = "done") =>
          /\ raised = ""
          /\ listing.ok =>
                /\ Range(response.value) = Range(listing.names)
                /\ Len(response.value) = Len(listing.names)
                /\ InIndexOrder(response.value)
          /\ ~listing.ok => response.value = DefaultIndexes
    /\ (op = "history" /\ pc = "done") =>
          /\ raised = ""
          /\ IF listing.ok /\ \A i \in DOMAIN listing.jobs :
                                 /\ listing.jobs[i].runDuration.kind # "bad"
                                 /\ listing.jobs[i].resultCount.kind # "bad"
             THEN /\ Len(response.value) = Len(listing.jobs)
                  /\ \A i \in DOMAIN listing.jobs :
                        response.value[i].sid = listing.jobs[i].sid
             ELSE response.value = <<>>

C17_Witness ==
    /\ op = "history"
    /\ pc = "done"
    /\ listing.ok
    /\ Len(listing.jobs) = 2
    /\ listing.jobs[1].sid = "sid1"
    /\ listing.jobs[2].resultCount.kind = "bad"
    /\ response.value = <<>>

SearchCalls == {"execute_search", "jobs.oneshot", "jobs.create"}

\* C18: validate_spl never raises and runs no search.  It submits one
\* parse-only request, carrying the stripped query, once a handle is there
\* (none when the connection attempt fails); the result is valid = true
\* exactly when the backend accepted that request, any failure is valid = false
\* with an error, and the query is echoed as it was given.
C18_ValidateQuery ==
    validation # None =>
        /\ raised = ""
        /\ Count("validate_spl") = 1
        /\ Count("jobs.create parse_only") = IF parseOnly = "not_submitted" THEN 0 ELSE 1
        /\ parseOnly = "not_submitted" => Count("connect") >= 1
        /\ \A i \in DOMAIN calls :
              /\ calls[i].call = "jobs.create parse_only" =>
                    calls[i].query = Strip(splQuery)
              /\ calls[i].call \in SearchCalls => Position("validate_spl") < i
        /\ pc = "exec_entry" => \A i \in DOMAIN calls : calls[i].call \notin SearchCalls
        /\ validation.valid <=> parseOnly = "accepted"
        /\ ~validation.valid => "error" \in DOMAIN validation
        /\ validation.query = splQuery

C18_Witness ==
    /\ pc = "exec_entry"
    /\ splQuery = QPadded
    /\ parseOnly = "rejected"
    /\ validation = [valid |-> FALSE, error |-> "Invalid SPL", query |-> QPadded]
    /\ Count("jobs.create parse_only") = 1

\* The completion call of this operation failed: it raised, or its message
\* holds no text.
CompletionFailed == completion.raised \/ ~completion.text

\* Texts that json.loads rejects.
NotJson == {TextBrokenJson, TextPlain, TextLines, TextNoSearch}

\* C19: natural_to_spl and enhance_spl_query never raise.  A failed completion
\* call gives success = false with an error and the original question from
\* natural_to_spl; a failed call or a response that is not valid JSON gives
\* success = false with an error and the original query from
\* enhance_spl_query, which never scans the lines of the text.
C19_GatewayTotal ==
    /\ (op = "nl" /\ splResult # None) =>
          /\ raised = ""
          /\ "success" \in DOMAIN splResult
          /\ CompletionFailed =>
                /\ splResult.success = FALSE
                /\ "error" \in DOMAIN splResult
                /\ splResult.original_question = question
    /\ (op = "enhance" /\ pc = "done") =>
          /\ raised = ""
          /\ "success" \in DOMAIN response
          /\ (CompletionFailed \/ completion.content \in NotJson) =>
                /\ response.success = FALSE
                /\ "error" \in DOMAIN response
                /\ response.original_query = splQuery
                /\ "enhanced_query" \notin DOMAIN response

C19_Witness ==
    /\ op = "enhance"
    /\ pc = "done"
    /\ splQuery = QIdx
    /\ ~CompletionFailed
    /\ completion.content = TextLines
    /\ response = [success |-> FALSE, error |-> "enhancement failed",
                   original_query |-> QIdx]

\* Texts that json.loads turns into an object.
JsonObjects == {TextJson, TextJsonBare, TextJsonNoQuery}

\* The lines of a text that start with 'search ' once stripped.
SearchLines(text) ==
    {Strip(SplitLines(text)[i]) : i \in
        {k \in DOMAIN SplitLines(text) : StartsWith(Strip(SplitLines(text)[k]), KwSearch)}}

\* C20: the text of the completion is parsed as a cascade.  A JSON object gives
\* its own query; a text that is no JSON object but has a line starting with
\* 'search ' gives that line as the query with confidence medium, malformed
\* JSON included; only a text without such a line gives an empty query.
C20_ParseCascade ==
    (op = "nl" /\ splResult # None /\ ~CompletionFailed) =>
        IF completion.content \in JsonObjects
        THEN splResult.spl_query = Get(JsonLoads(completion.content).value, KeyQuery, <<>>)
        ELSE IF SearchLines(completion.content) # {}
        THEN /\ splResult.spl_query \in SearchLines(completion.content)
             /\ splResult.confidence = ConfMedium
        ELSE /\ splResult.spl_query = <<>>
             /\ splResult.confidence \in {ConfMedium, ConfLow}

\* The validators' verdict on a parsed request, taken from the validators
\* themselves.
ValidatorsReject ==
    /\ http # None
    /\ http.request # None
    /\ \/ /\ http.route = "natural"
          /\ ~ValidateNaturalLanguageQuestion(http.request.question).valid
       \/ /\ http.route \in {"spl", "enhance"}
          /\ ~ValidateSplQuery(http.request.spl_query).valid
       \/ /\ http.route \in {"natural", "spl"}
          /\ ~ValidateMaxResults(http.request.max_results).valid

\* C21: on the routes natural, spl and enhance a request whose input a
\* validator rejects is answered with a client error (400), and neither a
\* translation call nor a backend call is made for it; a body the request
\* model refuses (422) starts nothing either.
C21_RejectionStopsOperation ==
    /\ ValidatorsReject =>
          /\ http.status = 400
          /\ calls = <<>>
          /\ completion = None
          /\ response = None
    /\ (http # None /\ http.request = None) => (http.status = 422 /\ calls = <<>>)

\* A raw query with a denylisted verb was posted to the spl route and refused.
C21_Witness ==
    /\ http # None
    /\ http.route = "spl"
    /\ http.request # None
    /\ http.request.spl_query = QDelete
    /\ http.status = 400
    /\ pc = "done"

\* query has the verb as a whole word: no letter, digit or underscore touches it.
HasVerb(query, verb) ==
    \E i \in 1..Len(query) :
        /\ i + Len(verb) - 1 <= Len(query)
        /\ \A k \in 1..Len(verb) : LowerChar(query[i + k - 1]) = verb[k]
        /\ i > 1 => ~IsWordChar(query[i - 1])
        /\ i + Len(verb) <= Len(query) => ~IsWordChar(query[i + Len(verb)])

\* query has two pipes with nothing but white space between them.
HasConsecutivePipes(query) ==
    LET pipes == {k \in 1..Len(query) : query[k] = "|"}
    IN  \E i, j \in pipes :
            /\ i < j
            /\ \A k \in (i + 1)..(j - 1) : IsSpace(query[k])

BeginsWithSearch(query) ==
    LET trimmed == Strip(query)
    IN  /\ Len(trimmed) >= Len(WordSearch)
        /\ \A k \in 1..Len(WordSearch) : LowerChar(trimmed[k]) = WordSearch[k]

\* C22: validateSplQuery answers invalid for a query that does not begin,
\* trimmed and in any letter case, with the search keyword, for a query with a
\* denylisted verb as a whole word in any letter case, and for a query with two
\* pipes separated by nothing or by white space; it answers valid for a query
\* of at most 5000 characters that begins with the keyword and has no such
\* defect.
C22_ValidateSplQuery ==
    (op = "validate_spl_query" /\ pc = "done") =>
        LET verb == \E cmd \in DangerousCommands : HasVerb(splQuery, cmd)
            pipes == HasConsecutivePipes(splQuery)
            begins == BeginsWithSearch(splQuery)
        IN  /\ ~begins => ~response.valid
            /\ verb => ~response.valid
            /\ pipes => ~response.valid
            /\ (Len(splQuery) <= MaxSplLength /\ begins /\ ~verb /\ ~pipes)
                  => response.valid

\* 'search | |' was refused for its pipes alone.
C22_Witness ==
    /\ op = "validate_spl_query"
    /\ pc = "done"
    /\ splQuery = Flatten(<<WordSearch, <<" ">>, KwPipe, <<" ">>, KwPipe>>)
    /\ response = Verdict(FALSE, "Invalid pipe usage in SPL query")

\* The texts handed to the backend for execution during the operation.
Submitted ==
    {calls[i].query : i \in {k \in 1..Len(calls) :
                                calls[k].call \in {"jobs.oneshot", "jobs.create"}}}

BeginsWithKeyword(s) == \E p \in SearchPrefixes : StartsWith(Lower(s), p)

\* C23: every text execute_search hands to the backend (oneshot or job) is
\* non-empty, trimmed and begins with a recognized keyword or a pipe; cleaning
\* a cleaned query again changes nothing; and a query that already begins with
\* a recognized keyword is only trimmed.
C23_SubmittedQueriesNormalized ==
    /\ \A s \in Submitted :
          /\ s # <<>>
          /\ Strip(s) = s
          /\ BeginsWithKeyword(s)
          /\ NormalizeQuery(s) = s
    /\ (op = "exec" /\ Submitted # {} /\ BeginsWithKeyword(LStrip(splQuery)))
          => Submitted = {Strip(splQuery)}

\* Catalog positions whose lower-cased text has a token of the lower-cased
\* partial question in it.
Matching(partial) ==
    {i \in 1..Len(Suggestions) :
        \E word \in Words(Lower(partial)) : Contains(Lower(Suggestions[i]), word)}

\* The k-th smallest member of a set of positions.
Kth(positions, k) ==
    CHOOSE i \in positions : Cardinality({j \in positions : j < i}) = k - 1

\* C24: suggestQuestions(partial) returns, in catalog order, the first (at
\* most five) of the ten catalog entries whose lower-cased text contains a
\* white-space separated token of the lower-cased partial, and nothing else;
\* for an empty or blank partial it returns the empty sequence.
C24_Suggestions ==
    (op = "suggest" /\ pc = "done") =>
        LET result == response.value
            matching == Matching(question)
        IN  /\ Len(Suggestions) = 10
            /\ Len(result) <= 5
            /\ Len(result) = (IF Cardinality(matching) < 5
                              THEN Cardinality(matching) ELSE 5)
            /\ \A k \in 1..Len(result) : result[k] = Suggestions[Kth(matching, k)]
            /\ (\A k \in 1..Len(question) : IsSpace(question[k])) => result = <<>>

\* Seven entries contain 'the': the first five of them are returned.
C24_Witness ==
    /\ op = "suggest"
    /\ pc = "done"
    /\ question = PartialMany
    /\ Cardinality(Matching(question)) = 7
    /\ Len(response.value) = 5
    /\ response.value[5] = Suggestions[6]

\* execute_search returned a successful outcome of the job path.
JobPathSucceeded ==
    /\ pc \in {"return", "done"}
    /\ searchResult # None
    /\ Get(searchResult, "success", FALSE)
    /\ "jobs.create" \in {calls[i].call : i \in 1..Len(calls)}
    /\ fastPath # "returned"

\* C25: the job path reports success only after the job reported completion:
\* a successful outcome of that path has statistics.is_done true, and the wait
\* loop was left because the job was done (a timeout giving a failure); a
\* failing status refresh does not make an unfinished job a success.
C25_SuccessOnlyAfterCompletion ==
    JobPathSucceeded =>
        /\ searchResult.statistics.is_done
        /\ waitEnd = "done"

\* C26: every SPL text handed to the backend for execution, whether posted to
\* the spl route or generated by the Translation Gateway for the natural route,
\* was accepted by validateSplQuery, and no text with a denylisted verb is
\* ever executed.
C26_ExecutedQueriesValidated ==
    (http # None /\ Submitted # {}) =>
        /\ ValidateSplQuery(splQuery).valid
        /\ \A s \in Submitted : \A cmd \in DangerousCommands : ~HasVerb(s, cmd)

\* C27: executeQuery always terminates: a call that was started returns, the
\* wait loop being left after finitely many polls even when the job never
\* completes, and while the loop runs no more than the timeout plus one poll
\* interval has passed since the job was created.
C27_ExecuteSearchTerminates ==
    /\ [](pc = "poll" => elapsed <= timeout * TicksPerSecond + MaxSleepTicks)
    /\ (op = "exec" /\ pc # "done") ~> (op = "exec" /\ pc = "done")

\* The job never reported completion and the deadline ended the call.
C27_Witness ==
    /\ op = "exec"
    /\ pc = "done"
    /\ waitEnd = "timeout"
    /\ searchResult = SearchFailure(TimeoutMessage, execQuery)

\* The calls a step adds to the log.
Added == SubSeq(calls', Len(calls) + 1, Len(calls'))

Adds(name) == \E i \in 1..Len(Added) : Added[i].call = name

\* The step runs the start of a Search Executor operation that finds the
\* handle absent.
StartsAbsent ==
    /\ service = "absent"
    /\ Len(calls') > Len(calls)
    /\ \E name \in {"execute_search", "validate_spl", "get_indexes",
                     "get_search_history"} : Adds(name)

\* One attempt to connect, made before any request to the backend; after a
\* failed attempt no request is made, the call is over or has its fallback,
\* and the handle is still absent.
OneAttemptNoRequest ==
    LET attempts == {i \in 1..Len(Added) : Added[i].call = "connect"}
        requests == {i \in 1..Len(Added) :
                        Added[i].call \in {"jobs.oneshot", "jobs.create",
                                           "jobs.create parse_only", "job.cancel"}}
    IN  /\ Cardinality(attempts) = 1
        /\ \A a \in attempts, r \in requests : a < r
        /\ service' = "absent" =>
              /\ requests = {}
              /\ Adds("validate_spl") => parseOnly' = "not_submitted"
              /\ (Adds("get_indexes") \/ Adds("get_search_history"))
                    => listing' = ConnectFailed
              /\ Adds("execute_search") => pc' = "done"
        /\ service' = "connected" =>
              /\ Adds("validate_spl") => parseOnly' # "not_submitted"
              /\ (Adds("get_indexes") \/ Adds("get_search_history"))
                    => listing' # ConnectFailed

\* The failed attempt reached the caller of the operation: it left
\* execute_search as an exception (which the orchestrator, when it is the
\* caller, turns into its failure response).
Propagated ==
    \/ raised' = "Connection failed"
    \/ /\ op' = "spl"
       /\ pc' = "done"
       /\ response' = SplExceptionResponse("Connection failed", splQuery')
    \/ /\ op' = "nl"
       /\ pc' = "done"
       /\ response' = NLExceptionResponse("Connection failed", question')

\* C28 as stated: in every Search Executor operation that finds the handle
\* absent exactly one connection attempt is made, before any backend request;
\* if it fails it is not retried, no request is issued, the handle stays
\* absent, and the failure propagates to the caller of the operation.
C28_LazyReconnectPropagates ==
    [][StartsAbsent =>
          /\ OneAttemptNoRequest
          /\ service' = "absent" => Propagated]_vars

\* C28, amended: as above, except that only executeQuery lets the failure
\* propagate; validateQuery, listIndexes and listRecentJobs catch it and
\* return their failure value (valid = false with the error, the default
\* index list, the empty list).
C28_LazyReconnect ==
    [][StartsAbsent =>
          /\ OneAttemptNoRequest
          /\ service' = "absent" =>
                /\ Adds("execute_search") => Propagated
                /\ ~Adds("execute_search") => raised' = ""
                /\ Adds("validate_spl") =>
                      validation' = [valid |-> FALSE, error |-> "Connection failed",
                                     query |-> splQuery]
                /\ (Adds("get_indexes") /\ op' = "indexes") =>
                      response' = [value |-> DefaultIndexes]
                /\ (Adds("get_indexes") /\ op' = "nl") =>
                      context'.indexes = DefaultIndexes
                /\ Adds("get_search_history") => response' = [value |-> <<>>]]_vars

\* listIndexes found the handle absent, its one attempt failed, and it
\* returned the default list.
C28_Witness ==
    /\ op = "indexes"
    /\ pc = "done"
    /\ service = "absent"
    /\ listing = ConnectFailed
    /\ Count("connect") = 1
    /\ raised = ""
    /\ response = [value |-> DefaultIndexes]

\* The slot is empty or holds one whole (time, context) pair.
SlotComplete ==
    \/ cache = None
    \/ /\ cache.age \in 0..AgeCap
       /\ cache.data.indexes \in
             {DefaultIndexes} \cup {SortNames(l.names) : l \in IndexListings}
       /\ cache.data.common_fields = CommonFields

\* C29: with concurrent callers of getEnvironmentContext on one orchestrator
\* the slot always holds nothing or one complete (timestamp, context) pair,
\* and no call returns a context whose index list was fetched from the
\* backend more than the TTL (300 s) earlier.
C29_BenignCacheRace ==
    /\ SlotComplete
    /\ \A t \in Callers :
          callers[t].pc = "done" => callers[t].fetched <= ContextCacheTtl * TicksPerSecond

\* A request that passed the route's validators and whose operation returned.
Returned(route) ==
    /\ http # None
    /\ http.route = route
    /\ op # "http"
    /\ pc = "done"

\* C30: every dictionary returned by runNaturalLanguage and runSpl, each
\* failure shape included, has the required fields of the endpoint's response
\* model, so the natural and spl endpoints never answer it with an internal
\* server error.
C30_FailuresSurviveTransport ==
    \A route \in {"natural", "spl"} :
        Returned(route) =>
            /\ ResponseModelAccepts(route, response)
            /\ http.status # 500

====
